---- MODULE Spec2Model ----
(***************************************************************************)
(* Verification model of the factory simulator (src/src/simulator).        *)
(*                                                                         *)
(* The simulator is a set of cooperative simpy processes.  A process runs  *)
(* atomically from one yield to the next, so every action below is one     *)
(* such code segment of one routine.  Two classes of steps exist:          *)
(*   - urgent steps: delivery of an interrupt and the first segment of a   *)
(*     freshly spawned process (simpy schedules both URGENT at `now`);     *)
(*   - normal steps: everything that waits a positive, random time         *)
(*     (wjitter, wnorm), an event, a child process or a resource.          *)
(* Normal steps may be delayed arbitrarily; urgent ones run first.  A      *)
(* request that is granted at once, and `request | timeout(0)`, resume     *)
(* the requester at the same instant: they stay inside the segment.        *)
(***************************************************************************)
EXTENDS Integers, Sequences, FiniteSets, TLC

\* ---------------------------------------------------------------- bounds
MaxCalls == 3        \* operations issued from outside in an open session
RunDuration == 2     \* nominal program duration, in clock ticks
MaxNoise == 1        \* largest deviation drawn by wnorm, in clock ticks

\* Process table: large enough for every session (see SlotsSuffice).
Slots == 1..(2 * MaxCalls + 4)
Programs == {1, 2}

VARIABLES
    state,      \* Machine.state
    program,    \* Machine.program
    pio,        \* Machine.production_interruption_ongoing
    icode,      \* Machine.production_interrupt_code
    ecode,      \* Machine.error_code
    ipot,       \* Machine.is_planned_operating_time
    ui,         \* Machine.ui       (simpy.PreemptiveResource)
    ex,         \* Machine.execute  (simpy.PreemptiveResource)
    procs,      \* live simpy processes of the machine
    prodH,      \* Machine.procs["production"]   (0: none or dead)
    runH,       \* Machine.procs["program_run"]  (0: none or dead)
    lock,       \* Container.lock of the input containers (PriorityResource)
    short,      \* the input containers hold less than a run needs
    stock,      \* level of the machine's input container
    fault,      \* exception that escaped env.run(), "" while running
    plan,       \* the session: randomize, operations still to be issued
    hist        \* observations for the properties (emission counts etc.)

    \* --- a MaterialContainer and a ConsumableContainer (SpecContainer)
VARIABLES
    batches,    \* MaterialContainer.batches: quantities, batches[0] first
    level,      \* ConsumableContainer.container.level
    waiting,    \* amounts of the simpy.Container put events not yet done
    fills,      \* put() calls in progress
    got,        \* what the last MaterialContainer.get did
    cfault      \* exception raised by a container operation, "" if none

cvars == <<batches, level, waiting, fills, got, cfault>>

    \* --- the blocks of a schedule (SpecBlock)
VARIABLES
    is_active,      \* Block.is_active
    deleted,        \* Block.deleted
    run,            \* Block._run: the event waited for, whether it has
                    \* been triggered, whether an interrupt is pending
    watchers,       \* CronBlock: end_cond routines sleeping
    priority,       \* Block.priority
    emitted,        \* last event the block emitted on its schedule
    heard,          \* Schedule: per event, the block it was triggered with
                    \* and not handled yet (0 if none)
    active_block,   \* Schedule.active_block (0 for None)
    active_blocks,  \* Schedule.active_blocks
    acting          \* block whose action Schedule.procs["action"] runs
                    \* (0 before the first)

\* Variables of the maintenance team.
VARIABLES
    issues,         \* Maintenance.issues.items: the heap of the PriorityStore
    fixing,         \* the item the repair loop took and has not fixed yet
    periods         \* waits of issue_producer that have elapsed

qvars == <<issues, fixing, periods>>

\* Variables of the machines that share programs and containers.
VARIABLES
    cof,                \* machine -> its input container
    pof,                \* machine -> the Program object it runs
    plevel,             \* container -> its level, in units of what one
                        \* run consumes
    prun,               \* machine -> its program run: position, runs
                        \* finished, the container it last took from
    clock,              \* container -> Container.lock (user, queue)
    locked_containers,  \* program -> Program.locked_containers
    pfault              \* exception that ended the simulation ("" if none)

pvars == <<cof, pof, plevel, prun, clock, locked_containers, pfault>>

bvars == <<is_active, deleted, run, watchers, priority, emitted, heard,
           active_block, active_blocks, acting>>

\* Variables of the stock of a material and a consumable (SpecStock).
VARIABLES
    mats,       \* material container -> MaterialContainer.batches
    cons,       \* consumable container -> its level
    made,       \* batches procurement has created
    done,       \* what the last stock operation did
    sfault      \* exception raised by a stock operation, "" if none

svars == <<mats, cons, made, done, sfault>>

\* Variables of the data collection (SpecMonitor).
VARIABLES
    monitor,    \* env.monitor
    data,       \* key -> the buffer env.data[(dtype, uid, key)]
    written     \* key -> every value written so far

dvars == <<monitor, data, written>>

\* Variables of the other components, untouched by the machine.
others == <<cvars, bvars, qvars, pvars, svars, dvars>>

\* The machine's own variables.
mach == <<state, program, pio, icode, ecode, ipot, ui, ex, procs, prodH,
          runH, lock, short, stock, fault, plan, hist>>

mvars == <<state, program, pio, icode, ecode, ipot, ui, ex, procs, prodH,
           runH, lock, short, stock, fault, plan, hist, others>>

\* What the actions of one component leave alone.
notContainers == <<mach, bvars, qvars, pvars, svars, dvars>>
notBlocks == <<mach, cvars, qvars, pvars, svars, dvars>>
notMaintenance == <<mach, cvars, bvars, pvars, svars, dvars>>
notPrograms == <<mach, cvars, bvars, qvars, svars, dvars>>
notStock == <<mach, cvars, bvars, qvars, pvars, dvars>>
notMonitor == <<mach, cvars, bvars, qvars, pvars, svars>>

\* ------------------------------------------------------------ containers
Capacity == 3        \* capacity of either container, in units
MaxFills == 2        \* put() calls that may be in progress at once

Fillers == 1..MaxFills
NoFill == [kind |-> "none", q |-> 0, left |-> 0]
NoGet == [done |-> FALSE, q |-> 0, before |-> 0, after |-> 0, fetched |-> <<>>]

ContainersIdle ==
    /\ batches = <<>>
    /\ level = 0
    /\ waiting = <<>>
    /\ fills = [f \in Fillers |-> NoFill]
    /\ got = NoGet
    /\ cfault = ""

\* ---------------------------------------------------------------- blocks
NBlocks == 2         \* blocks of the schedule
MaxWatchers == 2     \* end_cond routines of one block asleep at once

Blocks == 1..NBlocks
NoRun == [pc |-> "start", woke |-> FALSE, intr |-> FALSE]
NoEmission == [last |-> "none", flip |-> FALSE]
NothingHeard == [block_started |-> 0, block_finished |-> 0]

BlocksIdle ==
    /\ is_active = [b \in Blocks |-> FALSE]
    /\ deleted = [b \in Blocks |-> FALSE]
    /\ run = [b \in Blocks |-> NoRun]
    /\ watchers = [b \in Blocks |-> 0]
    /\ priority = [b \in Blocks |-> 0]
    /\ emitted = [b \in Blocks |-> NoEmission]
    /\ heard = NothingHeard
    /\ active_block = 0
    /\ active_blocks = {}
    /\ acting = 0

\* ----------------------------------------------------------- maintenance
NoIssue == [priority |-> 0, kind |-> "none", given |-> FALSE, arg |-> 0]

MaintenanceIdle ==
    /\ issues = <<>>
    /\ fixing = NoIssue
    /\ periods = 0

\* -------------------------------------------------------------- programs
NMachines == 3       \* machines of the factory
NContainers == 2     \* input containers of the factory
InputLevel == 2      \* what a container holds at the start, if anything

Machines == 1..NMachines
Containers == 1..NContainers
NoProgramRun ==
    [pc |-> "idle", at |-> 0, n |-> 0, from |-> 0, stopped |-> 0]
FreeLock == [user |-> 0, queue |-> <<>>]

ProgramsIdle ==
    /\ cof = [m \in Machines |-> <<1>>]
    /\ pof = [m \in Machines |-> 1]
    /\ plevel = [c \in Containers |-> InputLevel]
    /\ prun = [m \in Machines |-> NoProgramRun]
    /\ clock = [c \in Containers |-> FreeLock]
    /\ locked_containers = [g \in Programs |-> <<>>]
    /\ pfault = ""

\* ------------------------------------------------------- stock, monitor
StockIdle ==
    /\ mats = <<>>
    /\ cons = <<>>
    /\ made = 0
    /\ done = [op |-> "none"]
    /\ sfault = ""

MonitorIdle ==
    /\ monitor = 0
    /\ data = <<>>
    /\ written = <<>>

\* ------------------------------------------------------------- resources
\* simpy.PreemptiveResource with capacity 1: one user, a queue sorted by
\* (priority, arrival).
FreeRes == [user |-> 0, uprio |-> 0, queue |-> <<>>]

Enqueue(q, r) ==
    LET k == Cardinality({i \in 1..Len(q) : q[i].prio <= r.prio})
    IN  SubSeq(q, 1, k) \o <<r>> \o SubSeq(q, k + 1, Len(q))

\* The user that a new request of priority `prio` preempts (0: nobody).
Victim(res, prio) ==
    IF res.user # 0 /\ res.uprio > prio THEN res.user ELSE 0

Acquire(res, p, prio) ==
    IF res.user = 0 \/ res.uprio > prio
    THEN [res EXCEPT !.user = p, !.uprio = prio]
    ELSE [res EXCEPT !.queue = Enqueue(@, [p |-> p, prio |-> prio])]

\* Request.__exit__: release when using, cancel when still queued.
Release(res, p) ==
    IF res.user = p
    THEN IF res.queue = <<>>
         THEN [res EXCEPT !.user = 0, !.uprio = 0]
         ELSE [user |-> Head(res.queue).p, uprio |-> Head(res.queue).prio,
               queue |-> Tail(res.queue)]
    ELSE [res EXCEPT !.queue = SelectSeq(@, LAMBDA r : r.p # p)]

\* ------------------------------------------------------------- processes
Nil == [k |-> "none", pc |-> "", prio |-> 0, force |-> FALSE, reqx |-> FALSE,
        cause |-> "none", prog |-> 0, wp |-> 0, ev |-> "",
        ik |-> "none", ifo |-> FALSE, cres |-> "none", el |-> 0, tgt |-> 0]

Proc(k, pc) == [Nil EXCEPT !.k = k, !.pc = pc]

\* The machine as one record, so that a code segment is a composition of
\* the effects of its statements.
Cur == [state |-> state, program |-> program, pio |-> pio, icode |-> icode,
        ecode |-> ecode, ipot |-> ipot, ui |-> ui, ex |-> ex, procs |-> procs,
        prodH |-> prodH, runH |-> runH, lock |-> lock, fault |-> fault,
        hist |-> hist, stock |-> stock]

Commit(w) ==
    /\ state' = w.state
    /\ program' = w.program
    /\ pio' = w.pio
    /\ icode' = w.icode
    /\ ecode' = w.ecode
    /\ ipot' = w.ipot
    /\ ui' = w.ui
    /\ ex' = w.ex
    /\ procs' = w.procs
    /\ prodH' = w.prodH
    /\ runH' = w.runH
    /\ lock' = w.lock
    /\ fault' = w.fault
    /\ hist' = w.hist
    /\ stock' = w.stock

HasFree(w) == \E s \in Slots : w.procs[s].k = "none"
NewSlot(w) ==
    CHOOSE s \in Slots :
        /\ w.procs[s].k = "none"
        /\ \A t \in Slots : t < s => w.procs[t].k # "none"

\* env.process(...): the new process takes the first free slot.
Spawn(w, rec) == [w EXCEPT !.procs[NewSlot(w)] = rec]

\* Process.interrupt(cause): delivered at the target's next resumption.
Interrupt(w, v, cause, force) ==
    IF v = 0 \/ w.procs[v].k = "none" \/ w.procs[v].ik # "none" THEN w
    ELSE [w EXCEPT !.procs[v].ik = cause, !.procs[v].ifo = force]

\* resource.request(priority): preempts a weaker user (Preempted interrupt).
AcqUi(w, p, prio) ==
    Interrupt([w EXCEPT !.ui = Acquire(w.ui, p, prio)],
              Victim(w.ui, prio), "Preempted", FALSE)
AcqEx(w, p, prio) ==
    Interrupt([w EXCEPT !.ex = Acquire(w.ex, p, prio)],
              Victim(w.ex, prio), "Preempted", FALSE)
RelUi(w, p) == [w EXCEPT !.ui = Release(w.ui, p)]
RelEx(w, p) == [w EXCEPT !.ex = Release(w.ex, p)]

SetPc(w, p, pc) == [w EXCEPT !.procs[p].pc = pc]
WaitEv(w, p, e, pc) == [w EXCEPT !.procs[p].pc = pc, !.procs[p].ev = e]
\* yield <process c>
WaitChild(w, p, c, pc) ==
    [w EXCEPT !.procs[p].pc = pc, !.procs[p].wp = c, !.procs[p].cres = "none"]

\* Base.emit: succeed the event (wakes the processes waiting on it now) and
\* replace it by a fresh one; a process not yet waiting misses the edge.
Count(h, e) == IF e \in DOMAIN h THEN [h EXCEPT ![e] = @ + 1] ELSE h
Emit(w, e) ==
    [w EXCEPT !.procs = [s \in Slots |->
                            IF w.procs[s].ev = e
                            THEN [w.procs[s] EXCEPT !.ev = ""]
                            ELSE w.procs[s]],
              !.hist = Count(@, e)]

\* The process ends (return, or an absorbed interrupt): its with-blocks
\* release ui and executor, the processes waiting on it are resumed,
\* handles to it read is_alive = False.
End(w, p, res) ==
    LET w1  == RelUi(RelEx(w, p), p)
        ps  == [s \in Slots |->
                   IF s = p THEN Nil
                   ELSE IF w1.procs[s].wp = p
                        THEN [w1.procs[s] EXCEPT !.cres = res, !.wp = 0]
                   ELSE w1.procs[s]]
    IN  [w1 EXCEPT !.procs = ps,
                   !.prodH = IF @ = p THEN 0 ELSE @,
                   !.runH = IF @ = p THEN 0 ELSE @]

\* An exception nobody handles leaves env.run(): the simulation is over.
Crash(w, p, exc) == [End(w, p, "fail") EXCEPT !.fault = exc]

Running == fault = ""
\* Processes simpy resumes at the current instant, before time advances:
\* a pending interrupt, a first segment that reads machine state, an
\* awaited event that was emitted, an awaited process that ended, an
\* awaited resource that was granted.
Urgent(p) ==
    LET r == procs[p]
    IN  /\ r.k # "none"
        /\ \/ r.ik # "none"
           \/ r.pc \in {"ip0", "ap0", "rn0"}
           \/ r.pc \in {"so4", "sf4", "ap4", "ap5", "ap6", "fx1", "rb2", "rb3"}
              /\ r.ev = ""
           \/ r.pc \in {"pr2", "pr3", "pr4", "sf6", "st3"} /\ r.cres # "none"
           \/ r.pc \in {"sf2", "ap3", "se3", "fx3", "sg2"} /\ ex.user = p
           \/ r.pc \in {"ap2", "st2", "se2", "fx2"} /\ ui.user = p
           \/ r.pc = "rn1" /\ lock.user = p
Calm == \A p \in Slots : ~Urgent(p)

\* A step of process p after a wait of positive length.
At(p, k, pc) == /\ procs[p].k = k /\ procs[p].pc = pc
                /\ Running /\ Calm
\* A step of process p at the current instant.
AtNow(p, k, pc) == /\ procs[p].k = k /\ procs[p].pc = pc
                   /\ Running /\ procs[p].ik = "none"
\* The session is either open (any MaxCalls operations, in any order, at
\* any time) or a script (these operations, in this order; an operation
\* marked `settled` is issued once the earlier ones have run to their end,
\* the others at any time).
Call(op, arg) == [op |-> op, arg |-> arg]
Settled == \A p \in Slots : procs[p].k \in {"none", "production", "program_run",
                                            "temp_monitor"}
Allowed(c) == IF plan.open THEN plan.n < MaxCalls
              ELSE /\ plan.left # <<>>
                   /\ Head(plan.left).op = c.op /\ Head(plan.left).arg = c.arg
                   /\ Head(plan.left).settled => Settled
Issued == plan' = IF plan.open THEN [plan EXCEPT !.n = @ + 1]
                  ELSE [plan EXCEPT !.left = Tail(@)]

\* The processes of one routine that have not ended.
Live(k) == {p \in Slots : procs[p].k = k}

Woken(p) == procs[p].ev = ""
ChildDone(p) == procs[p].cres # "none"

\* --------------------------------------------------- Machine._switch_on
\* Mutant: _switch_on goes ahead whether or not the executor was granted.
SwitchOnBodyNoWait(w, p) ==
    IF w.state = "off" THEN SetPc(Emit(w, "switching_on"), p, "so3")
    ELSE IF w.state = "production"
    THEN WaitEv(Emit(w, "switching_on"), p, "production_stopped", "so4")
    ELSE End(w, p, "ok")

\* The executor request was (not) granted at once: `executor |
\* timeout(max_wait)` with max_wait = 0 at every call site; the
\* require_executor argument is not consulted.
SwitchOnBody(w, p) ==
    IF w.ex.user # p THEN End(w, p, "ok")
    ELSE IF w.state = "off" THEN SetPc(Emit(w, "switching_on"), p, "so3")
    ELSE IF w.state = "production"
    THEN LET w1 == Emit(w, "switching_on")
             w2 == IF w.pio THEN w1
                   ELSE Spawn(w1, [Proc("interrupt_production", "ip0")
                            EXCEPT !.cause = w.procs[p].cause,
                                   !.force = w.procs[p].force])
         IN  WaitEv(w2, p, "production_stopped", "so4")
    ELSE End(w, p, "ok")

\* After the jitter: already on -> emit and return; else request executor.
SwitchOnBegin(p) ==
    /\ At(p, "switch_on", "so1")
    /\ HasFree(Cur)
    /\ Commit(IF state = "on"
              THEN End(Emit(Cur, "switched_on"), p, "ok")
              ELSE SwitchOnBody(AcqEx(Cur, p, procs[p].prio), p))
    /\ UNCHANGED <<plan, short, others>>

\* off -> on after wnorm(30, 60).
SwitchOnFromOff(p) ==
    /\ At(p, "switch_on", "so3")
    /\ Commit(End(Emit(Emit([Cur EXCEPT !.state = "on"], "switched_on"),
                       "switched_on_from_off"), p, "ok"))
    /\ UNCHANGED <<plan, short, others>>

\* production_stopped was emitted: wait one more jitter.
SwitchOnStopped(p) ==
    /\ AtNow(p, "switch_on", "so4")
    /\ Woken(p)
    /\ Commit(SetPc(Cur, p, "so5"))
    /\ UNCHANGED <<plan, short, others>>

SwitchOnFromProduction(p) ==
    /\ At(p, "switch_on", "so5")
    /\ Commit(End(Emit([Cur EXCEPT !.state = "on"], "switched_on"), p, "ok"))
    /\ UNCHANGED <<plan, short, others>>

\* ------------------------------------------------------ Machine.press_on
\* The operator's press has passed its wnorm(1, 3): the button event is
\* emitted and _switch_on(priority=-10) is started.
PressOn ==
    /\ Allowed(Call("press_on", FALSE)) /\ Running /\ Calm /\ HasFree(Cur)
    /\ Commit(Spawn(Emit(Cur, "on_button_pressed"),
                    [Proc("switch_on", "so1")
                        EXCEPT !.prio = -10, !.reqx = TRUE,
                               !.cause = "ManualSwitchOffCause"]))
    /\ Issued
    /\ UNCHANGED <<short, others>>

\* -------------------------------------------------- Machine._switch_off
\* What _switch_off does once it may proceed (executor held, or not waited
\* for): the branch on the machine's state.
SwitchOffBody(w, p) ==
    IF w.state = "on" THEN SetPc(Emit(w, "switching_off"), p, "sf3")
    ELSE IF w.state = "production"
    THEN WaitEv(Spawn(Emit(w, "switching_off"),
                      [Proc("interrupt_production", "ip0")
                          EXCEPT !.cause = "ManualSwitchOffCause",
                                 !.force = w.procs[p].force,
                                 !.prio = w.procs[p].prio]),
                p, "production_stopped", "sf4")
    ELSE IF w.state = "error"
    THEN WaitChild(Spawn(Emit(w, "switching_off"),
                         [Proc("interrupt_production", "ip0")
                             EXCEPT !.cause = "ManualSwitchOffCause",
                                    !.force = TRUE]),
                   p, NewSlot(w), "sf6")
    ELSE End(w, p, "ok")

\* After the jitter: already off -> emit and return; force overrides the
\* priority and the executor wait; request the executor.
SwitchOffBegin(p) ==
    /\ At(p, "switch_off", "sf1")
    /\ HasFree(Cur)
    /\ Commit(
         IF state = "off" THEN End(Emit(Cur, "switched_off"), p, "ok")
         ELSE LET f  == procs[p].force
                  pr == IF f THEN -99999 ELSE procs[p].prio
                  w1 == [Cur EXCEPT !.procs[p].prio = pr,
                                    !.procs[p].reqx = IF f THEN FALSE ELSE @]
                  w2 == AcqEx(w1, p, pr)
              IN  IF w2.procs[p].reqx /\ w2.ex.user # p
                  THEN SetPc(w2, p, "sf2")
                  ELSE SwitchOffBody(w2, p))
    /\ UNCHANGED <<plan, short, others>>

\* `executor | timeout(max_wait)`: the executor was granted later, within
\* max_wait.
SwitchOffGranted(p) ==
    /\ AtNow(p, "switch_off", "sf2")
    /\ ex.user = p
    /\ HasFree(Cur)
    /\ Commit(SwitchOffBody(Cur, p))
    /\ UNCHANGED <<plan, short, others>>

\* Mutant: the routine returns at the timeout and its request stays in the
\* executor's queue.
SwitchOffTimeoutKeepsRequest(p) ==
    /\ At(p, "switch_off", "sf2")
    /\ ex.user # p
    /\ Commit([Cur EXCEPT !.procs[p] = Nil])
    /\ UNCHANGED <<plan, short, others>>

\* ... or max_wait elapsed first.
SwitchOffTimeout(p) ==
    /\ At(p, "switch_off", "sf2")
    /\ ex.user # p
    /\ Commit(End(Cur, p, "ok"))
    /\ UNCHANGED <<plan, short, others>>

\* on -> off after wnorm(30, 50).
SwitchOffFromOn(p) ==
    /\ At(p, "switch_off", "sf3")
    /\ Commit(End(Emit([Cur EXCEPT !.state = "off"], "switched_off"), p, "ok"))
    /\ UNCHANGED <<plan, short, others>>

\* production_stopped was emitted (from production), or the interrupting
\* child returned (from error): wait one more jitter.
SwitchOffStopped(p) ==
    /\ \/ AtNow(p, "switch_off", "sf4") /\ Woken(p)
       \/ AtNow(p, "switch_off", "sf6") /\ ChildDone(p)
    /\ Commit(SetPc(Cur, p, "sf5"))
    /\ UNCHANGED <<plan, short, others>>

SwitchOffFinish(p) ==
    /\ At(p, "switch_off", "sf5")
    /\ Commit(End(Emit([Cur EXCEPT !.state = "off"], "switched_off"), p, "ok"))
    /\ UNCHANGED <<plan, short, others>>

\* ----------------------------------------------------- Machine.press_off
PressOff(force) ==
    /\ Allowed(Call("press_off", force)) /\ Running /\ Calm /\ HasFree(Cur)
    /\ Commit(Spawn(Emit(Cur, "off_button_pressed"),
                    [Proc("switch_off", "sf1")
                        EXCEPT !.prio = -10, !.force = force, !.reqx = TRUE]))
    /\ Issued
    /\ UNCHANGED <<short, others>>

\* ------------------------------------------------------- Machine.reboot
\* reboot(priority=-1) has passed its jitter: nothing is done from off;
\* otherwise _switch_off(require_executor=False, priority=priority) is
\* started and the routine waits for switched_off.
Reboot ==
    /\ Allowed(Call("reboot", FALSE)) /\ Running /\ Calm
    /\ Cardinality(Live("none")) >= 2
    /\ Commit(IF state = "off" THEN Cur
              ELSE LET w1 == Spawn(Cur, [Proc("switch_off", "sf1")
                                           EXCEPT !.prio = -1])
                       n  == NewSlot(w1)
                   IN  WaitEv(Spawn(w1, Proc("reboot", "rb1")), n,
                              "switched_off", "rb2"))
    /\ Issued
    /\ UNCHANGED <<short, others>>

\* switched_off was emitted: _switch_on(require_executor=False,
\* priority=priority) is started and the routine waits for switched_on.
RebootSwitchedOff(p) ==
    /\ AtNow(p, "reboot", "rb2")
    /\ Woken(p)
    /\ HasFree(Cur)
    /\ Commit(WaitEv(Spawn(Cur, [Proc("switch_on", "so1")
                                   EXCEPT !.prio = -1,
                                          !.cause = "ManualSwitchOffCause"]),
                     p, "switched_on", "rb3"))
    /\ UNCHANGED <<plan, short, others>>

\* switched_on was emitted: rebooted.
RebootSwitchedOn(p) ==
    /\ AtNow(p, "reboot", "rb3")
    /\ Woken(p)
    /\ Commit(End(Cur, p, "ok"))
    /\ UNCHANGED <<plan, short, others>>

\* --------------------------------------------- Machine._switch_production
\* After the jitter: only from "on"; request the executor, give up when
\* it is required and not granted at once (max_wait = 0).
SwitchProductionBegin(p) ==
    /\ At(p, "switch_production", "sp1")
    /\ Commit(
         IF state # "on" THEN End(Cur, p, "ok")
         ELSE LET w1 == AcqEx(Cur, p, procs[p].prio)
              IN  IF procs[p].reqx /\ w1.ex.user # p THEN End(w1, p, "ok")
                  ELSE SetPc(Emit(w1, "switching_production"), p, "sp3"))
    /\ UNCHANGED <<plan, short, others>>

\* After the second jitter: start _production, state := "production",
\* whatever the state has become in the meantime.
SwitchProductionFinish(p) ==
    /\ At(p, "switch_production", "sp3")
    /\ HasFree(Cur)
    /\ LET n  == NewSlot(Cur)
           w1 == Spawn(Cur, Proc("production", "pr1"))
           w2 == [w1 EXCEPT !.prodH = n, !.state = "production"]
       IN  Commit(End(Emit(w2, "switched_production"), p, "ok"))
    /\ UNCHANGED <<plan, short, others>>

\* ------------------------------------------------ Machine._switch_program
\* After the jitter: refused during production; request the executor
\* and, with require_executor, wait for it up to max_wait; assert; emit.
SwitchProgramBegin(p) ==
    /\ At(p, "switch_program", "sg1")
    /\ Commit(
         IF state = "production" THEN End(Cur, p, "ok")
         ELSE LET w1 == AcqEx(Cur, p, procs[p].prio)
              IN  IF procs[p].reqx /\ w1.ex.user # p THEN SetPc(w1, p, "sg2")
                  ELSE SetPc(Emit(w1, "switching_program"), p, "sg3"))
    /\ UNCHANGED <<plan, short, others>>

\* The executor is granted within max_wait: the assertion on the state,
\* then switching_program.
SwitchProgramGranted(p) ==
    /\ AtNow(p, "switch_program", "sg2") /\ ex.user = p
    /\ Commit(IF state = "production" THEN Crash(Cur, p, "AssertionError")
              ELSE SetPc(Emit(Cur, "switching_program"), p, "sg3"))
    /\ UNCHANGED <<plan, short, others>>

\* max_wait passes first: the request is withdrawn.
SwitchProgramTimeout(p) ==
    /\ At(p, "switch_program", "sg2") /\ ex.user # p
    /\ Commit(End(Cur, p, "ok"))
    /\ UNCHANGED <<plan, short, others>>

\* After wnorm(60, 120): the program is switched.
SwitchProgramFinish(p) ==
    /\ At(p, "switch_program", "sg3")
    /\ Commit(End(Emit([Cur EXCEPT !.program = procs[p].prog],
                       "switched_program"), p, "ok"))
    /\ UNCHANGED <<plan, short, others>>

\* -------------------------------------- Machine._automated_program_switch
\* First segment, run as soon as the process is created: the state guard.
AutoGuard(p) ==
    /\ AtNow(p, "auto", "ap0")
    /\ Commit(IF state \in {"error", "off"} THEN End(Cur, p, "ok")
              ELSE SetPc(Cur, p, "ap1"))
    /\ UNCHANGED <<plan, short, others>>

AutoSpawnSwitchProgram(w, p) ==
    WaitEv(Spawn(w, [Proc("switch_program", "sg1")
                        EXCEPT !.prog = w.procs[p].prog]),
           p, "switched_program", "ap5")

\* ui and executor are held: via _switch_on when not on, then
\* _switch_program.
AutoBody(w, p) ==
    LET w1 == Emit(w, "switching_program_automatically")
    IN  IF w.state # "on"
        THEN WaitEv(Spawn(w1, [Proc("switch_on", "so1")
                                  EXCEPT !.cause = "ProgramSwitchCause",
                                         !.force = w.procs[p].force]),
                    p, "switched_on", "ap4")
        ELSE AutoSpawnSwitchProgram(w1, p)

\* ui is held: execute.request(priority=-2).
AutoExecutor(w, p) ==
    LET w1 == AcqEx(w, p, w.procs[p].prio)
    IN  IF w1.ex.user = p THEN AutoBody(w1, p) ELSE SetPc(w1, p, "ap3")

\* After the jitter: ui.request(priority=-2).
AutoRequestUi(p) ==
    /\ At(p, "auto", "ap1")
    /\ HasFree(Cur)
    /\ LET w1 == AcqUi(Cur, p, procs[p].prio)
       IN  Commit(IF w1.ui.user = p THEN AutoExecutor(w1, p)
                  ELSE SetPc(w1, p, "ap2"))
    /\ UNCHANGED <<plan, short, others>>

\* ui granted later, within max_wait.
AutoUiGranted(p) ==
    /\ AtNow(p, "auto", "ap2")
    /\ ui.user = p
    /\ HasFree(Cur)
    /\ Commit(AutoExecutor(Cur, p))
    /\ UNCHANGED <<plan, short, others>>

\* executor granted later, within max_wait.
AutoExecutorGranted(p) ==
    /\ AtNow(p, "auto", "ap3")
    /\ ex.user = p
    /\ HasFree(Cur)
    /\ Commit(AutoBody(Cur, p))
    /\ UNCHANGED <<plan, short, others>>

\* ui or executor not granted within max_wait = 300: give up.
AutoTimeout(p) ==
    /\ \/ At(p, "auto", "ap2") /\ ui.user # p
       \/ At(p, "auto", "ap3") /\ ex.user # p
    /\ Commit(End(Cur, p, "ok"))
    /\ UNCHANGED <<plan, short, others>>

\* switched_on, then switched_program, was emitted: start the next
\* routine.  (Nothing emits switched_on while this routine holds the
\* executor and the machine is producing, so only the second case occurs.)
AutoSwitched(p) ==
    /\ \/ AtNow(p, "auto", "ap4")
       \/ AtNow(p, "auto", "ap5")
    /\ Woken(p)
    /\ HasFree(Cur)
    /\ Commit(IF procs[p].pc = "ap4" THEN AutoSpawnSwitchProgram(Cur, p)
              ELSE WaitEv(Spawn(Cur, Proc("switch_production", "sp1")),
                          p, "production_started", "ap6"))
    /\ UNCHANGED <<plan, short, others>>

AutoProductionStarted(p) ==
    /\ AtNow(p, "auto", "ap6")
    /\ Woken(p)
    /\ Commit(End(Emit(Cur, "switched_program_automatically"), p, "ok"))
    /\ UNCHANGED <<plan, short, others>>

\* ------------------------------------- actions._action_switch_program
\* Mutant: the action starts the automated switch unless in error only.
ActionSwitchProgramStartAlsoOff(prog) ==
    /\ Allowed(Call("switch_program", prog)) /\ Running /\ Calm /\ HasFree(Cur)
    /\ ~ipot
    /\ LET w1 == [Cur EXCEPT !.ipot = TRUE]
       IN  Commit(IF state # "error"
                  THEN Spawn(w1, [Proc("auto", "ap0")
                                     EXCEPT !.prio = -2, !.prog = prog])
                  ELSE w1)
    /\ Issued
    /\ UNCHANGED <<short, others>>

\* A schedule block starts: is_planned_operating_time := True and, unless
\* the machine is off or in error, the automated switch is started.
ActionSwitchProgramStart(prog) ==
    /\ Allowed(Call("switch_program", prog)) /\ Running /\ Calm /\ HasFree(Cur)
    /\ ~ipot
    /\ LET w1 == [Cur EXCEPT !.ipot = TRUE]
       IN  Commit(IF state \notin {"off", "error"}
                  THEN Spawn(w1, [Proc("auto", "ap0")
                                     EXCEPT !.prio = -2, !.prog = prog])
                  ELSE w1)
    /\ Issued
    /\ UNCHANGED <<short, others>>

\* The block stops: back to "on" when the machine is producing.
ActionSwitchProgramStop ==
    /\ ipot
    /\ Running /\ Calm /\ HasFree(Cur)
    /\ LET w1 == [Cur EXCEPT !.ipot = FALSE]
       IN  Commit(IF state \notin {"off", "on", "error"}
                  THEN Spawn(w1, [Proc("switch_on", "so1")
                                     EXCEPT !.prio = -2, !.reqx = TRUE,
                                            !.cause = "ManualSwitchOffCause"])
                  ELSE w1)
    /\ UNCHANGED <<plan, short, others>>

\* ------------------------------------------ Machine._interrupt_production
\* Mutant: the interrupt is sent without looking at
\* production_interruption_ongoing.
InterruptProductionBodyNoCheck(w, p) ==
    IF w.procs[p].reqx /\ w.ex.user # p THEN End(w, p, "ok")
    ELSE IF w.prodH # 0
    THEN End([w EXCEPT !.icode = w.procs[p].cause,
                       !.procs[w.prodH].ik = w.procs[p].cause,
                       !.procs[w.prodH].ifo = w.procs[p].force], p, "ok")
    ELSE End(w, p, "ok")

\* Executor requested (and, when required, granted at once): interrupt the
\* production routine unless an interruption is already being handled.
InterruptProductionBody(w, p) ==
    IF w.procs[p].reqx /\ w.ex.user # p THEN End(w, p, "ok")
    ELSE IF ~w.pio /\ w.prodH # 0
    THEN End(Interrupt([w EXCEPT !.icode = w.procs[p].cause], w.prodH,
                       w.procs[p].cause, w.procs[p].force), p, "ok")
    ELSE End(w, p, "ok")

\* First segment: return when an interruption is ongoing.
InterruptProductionGuard(p) ==
    /\ AtNow(p, "interrupt_production", "ip0")
    /\ Commit(IF pio THEN End(Cur, p, "ok") ELSE SetPc(Cur, p, "ip1"))
    /\ UNCHANGED <<plan, short, others>>

InterruptProductionRun(p) ==
    /\ At(p, "interrupt_production", "ip1")
    /\ Commit(InterruptProductionBody(AcqEx(Cur, p, procs[p].prio), p))
    /\ UNCHANGED <<plan, short, others>>

\* ------------------------- Machine.start_production / stop_production
\* ui held: start_production with a program first runs _switch_program
\* and waits for it to end; then it starts _switch_production().
\* stop_production starts _interrupt_production(ManualStopProductionCause(force)).
UiCallBody(w, p) ==
    IF w.procs[p].k = "start_production" /\ w.procs[p].prog # 0
    THEN LET c == NewSlot(w)
         IN  WaitChild(Spawn(w, [Proc("switch_program", "sg1")
                                    EXCEPT !.reqx = TRUE,
                                           !.prog = w.procs[p].prog]),
                       p, c, "st3")
    ELSE IF w.procs[p].k = "start_production"
    THEN End(Spawn(w, [Proc("switch_production", "sp1")
                          EXCEPT !.reqx = TRUE]), p, "ok")
    ELSE End(Spawn(w, [Proc("interrupt_production", "ip0")
                          EXCEPT !.reqx = TRUE,
                                 !.cause = "ManualStopProductionCause",
                                 !.force = w.procs[p].force]), p, "ok")

\* The call itself: ui.request() at default priority, before the jitter.
StartProduction ==
    /\ Allowed(Call("start_production", FALSE)) /\ Running /\ Calm /\ HasFree(Cur)
    /\ LET n == NewSlot(Cur)
       IN  Commit(AcqUi(Spawn(Cur, Proc("start_production", "st1")), n, 0))
    /\ Issued
    /\ UNCHANGED <<short, others>>

\* start_production(program): the same call with a program to select.
StartProductionProgram(prog) ==
    /\ Allowed(Call("start_production_program", prog)) /\ Running /\ Calm
    /\ HasFree(Cur)
    /\ LET n == NewSlot(Cur)
       IN  Commit(AcqUi(Spawn(Cur, [Proc("start_production", "st1")
                                       EXCEPT !.prog = prog]), n, 0))
    /\ Issued
    /\ UNCHANGED <<short, others>>

StopProduction(force) ==
    /\ Allowed(Call("stop_production", force)) /\ Running /\ Calm /\ HasFree(Cur)
    /\ LET n == NewSlot(Cur)
       IN  Commit(AcqUi(Spawn(Cur, [Proc("stop_production", "st1")
                                       EXCEPT !.force = force]), n, 0))
    /\ Issued
    /\ UNCHANGED <<short, others>>

\* After the jitter: `ui | timeout(max_wait)`.
UiCallJitterDone(p) ==
    /\ \/ At(p, "start_production", "st1")
       \/ At(p, "stop_production", "st1")
    /\ HasFree(Cur)
    /\ Commit(IF ui.user = p THEN UiCallBody(Cur, p) ELSE SetPc(Cur, p, "st2"))
    /\ UNCHANGED <<plan, short, others>>

UiCallGranted(p) ==
    /\ \/ AtNow(p, "start_production", "st2")
       \/ AtNow(p, "stop_production", "st2")
    /\ ui.user = p
    /\ HasFree(Cur)
    /\ Commit(UiCallBody(Cur, p))
    /\ UNCHANGED <<plan, short, others>>

UiCallTimeout(p) ==
    /\ \/ At(p, "start_production", "st2")
       \/ At(p, "stop_production", "st2")
    /\ ui.user # p
    /\ Commit(End(Cur, p, "ok"))
    /\ UNCHANGED <<plan, short, others>>

\* _switch_program has ended, however it ended: _switch_production().
StartProductionSwitched(p) ==
    /\ AtNow(p, "start_production", "st3") /\ ChildDone(p)
    /\ HasFree(Cur)
    /\ Commit(End(Spawn(Cur, [Proc("switch_production", "sp1")
                                 EXCEPT !.reqx = TRUE]), p, "ok"))
    /\ UNCHANGED <<plan, short, others>>

\* ---------------------------------------------------- Machine._production
\* procs["program_run"] = env.process(program.run(machine)); yield it.
StartRun(w, p) ==
    LET n == NewSlot(w)
    IN  WaitChild([Spawn(w, Proc("program_run", "rn0")) EXCEPT !.runH = n],
                  p, n, "pr2")

\* After the jitter: production_started, codes reset, first program run.
ProductionBegin(p) ==
    /\ At(p, "production", "pr1")
    /\ HasFree(Cur)
    /\ Commit(StartRun([Emit(Cur, "production_started")
                           EXCEPT !.icode = "none", !.ecode = 0], p))
    /\ UNCHANGED <<plan, short, others>>

\* The program run returned: next batch.
ProductionNextRun(p) ==
    /\ AtNow(p, "production", "pr2")
    /\ procs[p].cres = "ok"
    /\ HasFree(Cur)
    /\ Commit(StartRun(Cur, p))
    /\ UNCHANGED <<plan, short, others>>

\* The program run raised an issue (simpy.Interrupt from _check_inputs):
\* the handler starts _switch_error and waits for it.
ProductionIssue(p) ==
    /\ AtNow(p, "production", "pr2")
    /\ procs[p].cres = "issue"
    /\ HasFree(Cur)
    /\ LET w1 == [Emit(Cur, "production_interrupted")
                     EXCEPT !.pio = TRUE, !.icode = "issue"]
       IN  Commit(WaitChild(Spawn(w1, Proc("switch_error", "se1")),
                            p, NewSlot(w1), "pr4"))
    /\ UNCHANGED <<plan, short, others>>

\* An interrupt reaches the production routine.  Waiting for the run
\* inside the try block: the handler passes the cause on to
\* procs["program_run"] and waits for it.  Anywhere else nothing catches it.
ProductionInterrupted(p) ==
    /\ procs[p].k = "production" /\ procs[p].ik # "none"
    /\ Running
    /\ LET w0 == [Cur EXCEPT !.procs[p].ik = "none"]
       IN  Commit(
             IF procs[p].pc # "pr2" THEN Crash(w0, p, "Interrupt")
             ELSE LET w1 == [Emit(w0, "production_interrupted")
                                EXCEPT !.pio = TRUE, !.icode = procs[p].ik]
                  IN  IF w1.runH = 0 THEN Crash(w1, p, "RuntimeError")
                      ELSE WaitChild(Interrupt(w1, w1.runH, procs[p].ik,
                                               procs[p].ifo),
                                     p, w1.runH, "pr3"))
    /\ UNCHANGED <<plan, short, others>>

\* The interrupted run, or _switch_error, returned: production_stopped and
\* the interruption is over.
ProductionStopped(p) ==
    /\ \/ AtNow(p, "production", "pr3")
       \/ AtNow(p, "production", "pr4")
    /\ ChildDone(p)
    /\ LET w1 == IF procs[p].pc = "pr4"
                 THEN Emit(Cur, "production_stopped_from_error") ELSE Cur
       IN  Commit(End([Emit(w1, "production_stopped") EXCEPT !.pio = FALSE],
                      p, "ok"))
    /\ UNCHANGED <<plan, short, others>>

\* ------------------------------------------------------------ Program.run
\* Base.norm(mu, sigma): mu + noise, no noise unless randomize.
BomConsumption == 2     \* BOM consumption of the input per tick
BomQuantity == 4        \* BOM quantity of the product per run
SafetyMargin == 2       \* safety_margin of _check_inputs
MaxBatches == 2         \* product batches counted (2: two or more)

\* _check_inputs: quantity = expected_duration * consumption *
\* safety_margin, with expected_duration = minutes(duration_minutes) +
\* pnorm(0, 1).
Needed(n) ==
    (RunDuration + (IF n < 0 THEN 0 - n ELSE n)) * BomConsumption * SafetyMargin
\* A level no check refuses.
Plenty == Needed(MaxNoise)

NoBatch == [n |-> 0, forced |-> FALSE, spent |-> 0, consumed |-> 0,
            quantity |-> 0]

Noise == IF plan.randomize THEN (0 - MaxNoise)..MaxNoise ELSE {0}
Max0(x) == IF x < 0 THEN 0 ELSE x

\* Time is counted in ticks from start_time.  The length of a wait is
\* drawn when the wait ends; the instant of an interrupt is drawn when it
\* is delivered (no other wait of the model is timed).
\* wnorm(low): max(norm(low, 0.01), 0).
WNorm(low, n) == Max0(low + n)

\* Mutant: the interrupted run waits a whole duration again.
RemainingWaitRestart(t, n) == WNorm(RunDuration, n)

\* time_left = start_time + duration - now; yield wnorm(time_left).
RemainingWait(t, n) == WNorm(RunDuration - t, n)

\* Mutant: inputs are consumed for a whole nominal run.
ConsumeInputsWholeRun(timeSpent) ==
    [consumed |-> RunDuration * BomConsumption, output_factor |-> 1]

\* _consume_inputs: quantity = cnorm(0.99 * base, 1.01 * base) with
\* base = time_spent * consumption, taken from the locked containers;
\* returns output_factor = total_effective / quantity, 1 for batches of
\* consumption_factor 1.  The 1 % spread is below one unit.
ConsumeInputs(timeSpent) ==
    [consumed |-> timeSpent * BomConsumption, output_factor |-> 1]

\* Quantity of the product batch: max(int(output_factor * cnorm(0.99 * q,
\* 1.01 * q)), 1) with q the BOM quantity of the product.
ProductQuantity(outputFactor) ==
    IF outputFactor * BomQuantity < 1 THEN 1 ELSE outputFactor * BomQuantity

\* After its wait the run consumes inputs for time_spent = end_time -
\* start_time (tgt), unlocks the containers, puts one product batch into
\* the product container, emits program_stopped and returns.
RunFinish(w, p) ==
    LET timeSpent == w.procs[p].tgt
        used == ConsumeInputs(timeSpent)
        w1 == [w EXCEPT !.lock = Release(w.lock, p),
                        !.stock = IF plan.refill THEN @
                                  ELSE @ - used.consumed,
                        !.hist.batches =
                            IF plan.refill \/ @ = MaxBatches THEN @
                            ELSE @ + 1,
                        !.hist.batch = [n |-> 1,
                                        forced |-> w.procs[p].ifo,
                                        spent |-> timeSpent,
                                        consumed |-> used.consumed,
                                        quantity |->
                                          ProductQuantity(used.output_factor)]]
    IN  IF used.consumed > w.stock THEN Crash(w, p, "ValueError")
        ELSE End(w1, p, "ok")

\* find_containers_by_type(obj, machine.containers): raising defaults to
\* True, so an empty result is a ValueError raised inside the call, before
\* the caller's `len(containers) == 0` test.
FindContainersRaises == plan.missing

\* First segment: _check_inputs raises LowContainerLevelIssue, or requests
\* the container locks; once they are held the run waits wnorm(duration).
\* The ValueError of find_containers_by_type is no simpy.Interrupt:
\* neither Program.run nor Machine._production handles it.
RunCheckInputs(p) ==
    /\ AtNow(p, "program_run", "rn0")
    /\ LET w1 == [Cur EXCEPT !.lock = Acquire(lock, p, 0)]
       IN  \E n \in Noise :
             Commit(IF FindContainersRaises THEN Crash(Cur, p, "ValueError")
                    ELSE IF short \/ stock < Needed(n)
                    THEN End(Cur, p, "issue")
                    ELSE IF w1.lock.user = p THEN SetPc(w1, p, "rn2")
                    ELSE SetPc(w1, p, "rn1"))
    /\ UNCHANGED <<plan, short, others>>

RunLockGranted(p) ==
    /\ AtNow(p, "program_run", "rn1")
    /\ lock.user = p
    /\ Commit(SetPc(Cur, p, "rn2"))
    /\ UNCHANGED <<plan, short, others>>

\* The wait of the run ends: wnorm(duration) when it was not interrupted,
\* the remaining wait otherwise.
RunTimeout(p) ==
    /\ \/ At(p, "program_run", "rn2")
       \/ At(p, "program_run", "rn3")
    /\ \E n \in Noise :
         Commit(RunFinish([Cur EXCEPT !.procs[p].tgt =
                              IF procs[p].pc = "rn2"
                              THEN WNorm(RunDuration, n) ELSE @], p))
    /\ UNCHANGED <<plan, short, others>>

\* The run is interrupted at tick t.  In the try block (first wait): a
\* forced cause ends the wait at once, any other cause waits
\* wnorm(start_time + duration - now).  Outside the try block nothing
\* catches the interrupt.
RunInterrupted(p) ==
    /\ procs[p].k = "program_run" /\ procs[p].ik # "none"
    /\ Running
    /\ LET w0 == [Cur EXCEPT !.procs[p].ik = "none"]
       IN  IF procs[p].pc # "rn2" THEN Commit(Crash(w0, p, "Interrupt"))
           ELSE \E n1 \in Noise : \E t \in 0..WNorm(RunDuration, n1) :
                  IF procs[p].ifo
                  THEN Commit(RunFinish([w0 EXCEPT !.procs[p].tgt = t], p))
                  ELSE \E n2 \in Noise :
                         Commit([w0 EXCEPT
                                   !.procs[p].pc = "rn3",
                                   !.procs[p].el = t,
                                   !.procs[p].tgt =
                                       t + RemainingWait(t, n2)])
    /\ UNCHANGED <<plan, short, others>>

\* --------------------------------------------------- Machine._switch_error
SwitchErrorExecutor(w, p) ==
    LET w1 == AcqEx(w, p, -9999)
    IN  IF w1.ex.user = p THEN SetPc(w1, p, "se4") ELSE SetPc(w1, p, "se3")

\* After the jitter: only from on or production; ui.request(-9999), then
\* execute.request(-9999).
SwitchErrorBegin(p) ==
    /\ At(p, "switch_error", "se1")
    /\ Commit(
         IF state \notin {"on", "production"} THEN End(Cur, p, "ok")
         ELSE LET w1 == AcqUi(Emit(Emit(Cur, "issue_occurred"),
                                   "switching_error"), p, -9999)
              IN  IF w1.ui.user = p THEN SwitchErrorExecutor(w1, p)
                  ELSE SetPc(w1, p, "se2"))
    /\ UNCHANGED <<plan, short, others>>

SwitchErrorGranted(p) ==
    /\ \/ AtNow(p, "switch_error", "se2") /\ ui.user = p
       \/ AtNow(p, "switch_error", "se3") /\ ex.user = p
    /\ Commit(IF procs[p].pc = "se2" THEN SwitchErrorExecutor(Cur, p)
              ELSE SetPc(Cur, p, "se4"))
    /\ UNCHANGED <<plan, short, others>>

\* After the jitter: state := "error", switched_error; then
\* AutomatedStopProductionCause(issue, force=True) raises TypeError (the
\* constructor takes force as its first positional parameter): the with
\* blocks release executor and ui and the exception leaves the process.
SwitchErrorFinish(p) ==
    /\ At(p, "switch_error", "se4")
    /\ Commit(Crash(Emit([Cur EXCEPT !.state = "error", !.ecode = 1],
                         "switched_error"), p, "TypeError"))
    /\ UNCHANGED <<plan, short, others>>

\* An issue source (part failure, overheating, maintenance) starts
\* _switch_error.
IssueOccurs ==
    /\ Allowed(Call("issue", FALSE)) /\ Running /\ Calm /\ HasFree(Cur)
    /\ Commit(Spawn(Cur, Proc("switch_error", "se1")))
    /\ Issued
    /\ UNCHANGED <<short, others>>

\* Machine.clear_issue is started (by the operator, or by the maintenance
\* team for a broken part): in error it emits clearing_issue and waits
\* wnorm(20) before the reboot; in any other state it only warns.  (The
\* state is error only once the simulation has ended: SwitchErrorFinish.)
ClearIssue ==
    /\ Allowed(Call("clear_issue", FALSE)) /\ Running /\ Calm /\ HasFree(Cur)
    /\ Commit(IF state = "error"
              THEN Spawn(Emit(Cur, "clearing_issue"),
                         Proc("clear_issue", "ci1"))
              ELSE Cur)
    /\ Issued
    /\ UNCHANGED <<short, others>>

\* ------------------- Maintenance._fix_issue(ScheduledMaintenanceIssue)
\* execute.request(-99), inside the ui lock.
FixIssueExecutor(w, p) ==
    LET w1 == AcqEx(w, p, -99)
    IN  IF w1.ex.user = p THEN SetPc(w1, p, "fx4") ELSE SetPc(w1, p, "fx3")

\* The repair loop starts _fix_issue: press_off(force=True) is spawned
\* and the routine waits for switched_off.
FixIssueStart ==
    /\ Allowed(Call("maintenance", FALSE)) /\ Running /\ Calm
    /\ Cardinality(Live("none")) >= 2
    /\ LET w1 == Spawn(Emit(Cur, "off_button_pressed"),
                       [Proc("switch_off", "sf1")
                           EXCEPT !.prio = -10, !.force = TRUE,
                                  !.reqx = TRUE])
           n  == NewSlot(w1)
       IN  Commit(WaitEv(Spawn(w1, Proc("fix_issue", "fx0")), n,
                         "switched_off", "fx1"))
    /\ Issued
    /\ UNCHANGED <<short, others>>

\* Mutant: the executor is requested before ui.
FixIssueLockExecutorFirst(p) ==
    /\ AtNow(p, "fix_issue", "fx1")
    /\ Woken(p)
    /\ Commit(LET w1 == AcqUi(AcqEx(Cur, p, -99), p, -99)
              IN  IF w1.ui.user # p THEN SetPc(w1, p, "fx2")
                  ELSE IF w1.ex.user # p THEN SetPc(w1, p, "fx3")
                  ELSE SetPc(w1, p, "fx4"))
    /\ UNCHANGED <<plan, short, others>>

\* switched_off was emitted: ui.request(-99), then execute.request(-99).
FixIssueLockUi(p) ==
    /\ AtNow(p, "fix_issue", "fx1")
    /\ Woken(p)
    /\ Commit(LET w1 == AcqUi(Cur, p, -99)
              IN  IF w1.ui.user = p THEN FixIssueExecutor(w1, p)
                  ELSE SetPc(w1, p, "fx2"))
    /\ UNCHANGED <<plan, short, others>>

FixIssueGranted(p) ==
    /\ \/ AtNow(p, "fix_issue", "fx2") /\ ui.user = p
       \/ AtNow(p, "fix_issue", "fx3") /\ ex.user = p
    /\ Commit(IF procs[p].pc = "fx2" THEN FixIssueExecutor(Cur, p)
              ELSE SetPc(Cur, p, "fx4"))
    /\ UNCHANGED <<plan, short, others>>

\* The maintenance has taken its duration: executor and ui are released.
FixIssueDone(p) ==
    /\ At(p, "fix_issue", "fx4")
    /\ Commit(End(Cur, p, "ok"))
    /\ UNCHANGED <<plan, short, others>>

\* --------------------- MachineTemperatureSensor._temp_monitor_proc
MaxReadings == 2     \* readings above 80 the sensor publishes

\* The sensor publishes a value above 80 (the temperature starts at room
\* temperature and rises only while the machine is on or producing). The
\* monitor, if it waits for temperature_changed and the machine is not in
\* error, starts _switch_error(OverheatIssue) and waits for
\* switched_error; it is resumed by that event only. The interval of the
\* sensor is longer than a jitter of _switch_error.
HotReading ==
    /\ plan.hot /\ Running /\ Calm /\ HasFree(Cur)
    /\ hist.switched_on_from_off > 0
    /\ hist.hot < MaxReadings
    /\ \A p \in Live("switch_error") : procs[p].pc \notin {"se1", "se4"}
    /\ \E m \in Live("temp_monitor") :
          LET w == [Cur EXCEPT !.hist.hot = @ + 1]
          IN  Commit(IF procs[m].pc = "tm1" /\ state # "error"
                     THEN WaitEv(Spawn(w, Proc("switch_error", "se1")), m,
                                 "switched_error", "tm2")
                     ELSE w)
    /\ UNCHANGED <<plan, short, others>>

\* The input containers run low (consumption elsewhere, no procurement).
InputsRunLow ==
    /\ Allowed(Call("inputs_low", FALSE)) /\ Running /\ Calm
    /\ ~short
    /\ short' = TRUE
    /\ Issued
    /\ UNCHANGED <<state, program, pio, icode, ecode, ipot, ui, ex, procs,
                   prodH, runH, lock, fault, hist, stock, others>>

\* ------------------------------------------ utils.ignore_causes / Preempted
Decorated == {"switch_on", "switch_off", "switch_program", "auto",
              "switch_error"}

\* A preempted resource user is interrupted with cause Preempted: the
\* decorated routines end quietly, in the others the interrupt escapes.
Preempted(p) ==
    /\ procs[p].ik = "Preempted"
    /\ Running
    /\ procs[p].k \notin {"production", "program_run"}
    /\ Commit(IF procs[p].k \in Decorated THEN End(Cur, p, "ok")
              ELSE Crash(Cur, p, "Interrupt"))
    /\ UNCHANGED <<plan, short, others>>

\* ------------------------------------------------------------ the machine
\* A session: Factory(randomize=...) and the operations issued.
\* stock is the level of the input container at the start; with refill
\* procurement keeps it there.
\* hot: the temperature sensor reads above 80 during the session.
\* missing: the machine has no container for an input of the program.
Open(r) == [name |-> "open", open |-> TRUE, n |-> 0, left |-> <<>>,
            randomize |-> r, stock |-> Plenty, refill |-> TRUE,
            hot |-> FALSE, missing |-> FALSE]
Script(name, seq, r) == [name |-> name, open |-> FALSE, n |-> 0, left |-> seq,
                         randomize |-> r, stock |-> Plenty, refill |-> TRUE,
                         hot |-> FALSE, missing |-> FALSE]
\* A script on a machine that lacks the container of a BOM input.
Unequipped(name, seq, r) == [Script(name, seq, r) EXCEPT !.missing = TRUE]
\* A script during which the machine overheats.
Heated(name, seq, r) == [Script(name, seq, r) EXCEPT !.hot = TRUE]
\* A script during which nothing is procured.
Unattended(name, seq, r, lv) ==
    [Script(name, seq, r) EXCEPT !.stock = lv, !.refill = FALSE]

\* press_on; a schedule block switches the program; press_off; press_on;
\* start_production.
Then(op, arg) == [op |-> op, arg |-> arg, settled |-> TRUE]
Meanwhile(op, arg) == [op |-> op, arg |-> arg, settled |-> FALSE]

\* press_on; a schedule block switches the program and, while that is
\* under way, press_off; later press_on and start_production.
Restart == <<Then("press_on", FALSE), Then("switch_program", 2),
             Meanwhile("press_off", FALSE), Then("press_on", FALSE),
             Then("start_production", FALSE)>>

\* press_on, and press_on again at any time.
PressTwice == <<Then("press_on", FALSE), Meanwhile("press_on", FALSE)>>

\* press_on, then start_production.
OneRun == <<Then("press_on", FALSE), Then("start_production", FALSE)>>

\* press_on, press_off, press_on and start_production.
OffAndOn == <<Then("press_on", FALSE), Then("press_off", FALSE),
              Then("press_on", FALSE), Then("start_production", FALSE)>>

\* The container holds a little more than one run consumes.
ScenarioLevel == RunDuration * BomConsumption + 1

Sessions ==
    {Open(r) : r \in BOOLEAN} \cup
    {Script("Restart", Restart, TRUE), Script("PressTwice", PressTwice, TRUE)}
    \cup {Unattended("OneRun", OneRun, r, ScenarioLevel) : r \in BOOLEAN}
    \cup {Unattended("OneRunMargin", OneRun, r, Plenty) : r \in BOOLEAN}
    \cup {Heated("Overheat", OffAndOn, FALSE)}
    \cup {Unequipped("NoContainer", OneRun, FALSE)}

MachineInit ==
    /\ plan \in Sessions
    /\ state = "off"
    /\ program = 1
    /\ pio = FALSE
    /\ icode = "none"
    /\ ecode = 0
    /\ ipot = FALSE
    /\ ui = FreeRes
    /\ ex = FreeRes
    /\ lock = FreeRes
    /\ short = FALSE
    /\ stock = plan.stock
    /\ procs = [s \in Slots |->
                   IF plan.hot /\ s = 1 THEN Proc("temp_monitor", "tm1")
                   ELSE Nil]
    /\ prodH = 0
    /\ runH = 0
    /\ fault = ""
    /\ hist = [switched_on_from_off |-> 0, batch |-> NoBatch, batches |-> 0,
               hot |-> 0]

Init ==
    /\ MachineInit /\ ContainersIdle /\ BlocksIdle /\ MaintenanceIdle
    /\ ProgramsIdle /\ StockIdle /\ MonitorIdle
MachineIdle == MachineInit /\ plan = Open(FALSE)

Calls ==
    \/ PressOn
    \/ \E f \in BOOLEAN : PressOff(f)
    \/ StartProduction
    \/ \E g \in Programs : StartProductionProgram(g)
    \/ \E f \in BOOLEAN : StopProduction(f)
    \/ \E g \in Programs : ActionSwitchProgramStart(g)
    \/ ActionSwitchProgramStop
    \/ IssueOccurs
    \/ InputsRunLow
    \/ HotReading
    \/ FixIssueStart
    \/ ClearIssue
    \/ Reboot

Steps(p) ==
    \/ SwitchOnBegin(p) \/ SwitchOnFromOff(p) \/ SwitchOnStopped(p)
    \/ SwitchOnFromProduction(p)
    \/ SwitchOffBegin(p) \/ SwitchOffGranted(p) \/ SwitchOffTimeout(p)
    \/ SwitchOffFromOn(p) \/ SwitchOffStopped(p) \/ SwitchOffFinish(p)
    \/ SwitchProductionBegin(p) \/ SwitchProductionFinish(p)
    \/ SwitchProgramBegin(p) \/ SwitchProgramGranted(p)
    \/ SwitchProgramTimeout(p) \/ SwitchProgramFinish(p)
    \/ AutoGuard(p) \/ AutoRequestUi(p) \/ AutoUiGranted(p)
    \/ AutoExecutorGranted(p) \/ AutoTimeout(p) \/ AutoSwitched(p)
    \/ AutoProductionStarted(p)
    \/ InterruptProductionGuard(p) \/ InterruptProductionRun(p)
    \/ UiCallJitterDone(p) \/ UiCallGranted(p) \/ UiCallTimeout(p)
    \/ StartProductionSwitched(p)
    \/ ProductionBegin(p) \/ ProductionNextRun(p) \/ ProductionIssue(p)
    \/ ProductionInterrupted(p) \/ ProductionStopped(p)
    \/ RunCheckInputs(p) \/ RunLockGranted(p) \/ RunTimeout(p)
    \/ RunInterrupted(p)
    \/ SwitchErrorBegin(p) \/ SwitchErrorGranted(p) \/ SwitchErrorFinish(p)
    \/ FixIssueLockUi(p) \/ FixIssueGranted(p) \/ FixIssueDone(p)
    \/ RebootSwitchedOff(p) \/ RebootSwitchedOn(p)
    \/ Preempted(p)

Next == Calls \/ \E p \in Slots : Steps(p)

Spec == Init /\ [][Next]_mvars

SlotsSuffice == \E s \in Slots : procs[s].k = "none"

\* ------------------------------------------------------------ properties

\* C2: at most one production routine and at most one program run are
\* alive at any time.
C2_SingleProduction ==
    /\ Cardinality(Live("production")) <= 1
    /\ Cardinality(Live("program_run")) <= 1

\* C3: while production_interruption_ongoing is true no step interrupts
\* the production routine or a program run.
C3_NoInterruptWhileOngoing ==
    [][pio => \A p \in Slots :
                 (procs'[p].k \in {"production", "program_run"}
                    /\ procs'[p].ik # "none") => procs[p].ik # "none"]_mvars

\* An _interrupt_production that passed its first check is still to run
\* while an interruption is being handled.
C3_Witness ==
    /\ pio
    /\ \E p \in Slots : procs[p].k = "interrupt_production"
                          /\ procs[p].pc = "ip1"
    /\ prodH # 0

\* C7: when a schedule block starts while the machine is off or in error,
\* the switch-program action changes neither state nor program, requests
\* neither ui nor executor and starts no routine.
C7_NoAutoSwitchWhenOff ==
    [][(~ipot /\ ipot' /\ state \in {"off", "error"})
         => UNCHANGED <<state, program, ui, ex, procs, prodH, runH>>]_mvars

\* The block has started on a machine that is off and nothing runs.
C7_Witness ==
    /\ ipot /\ state = "off"
    /\ \A p \in Slots : procs[p].k = "none"
    /\ ui = FreeRes /\ ex = FreeRes

\* C8: after press_on twice on a machine that is off, switched_on_from_off
\* has been emitted exactly once and the state is on; nothing changes the
\* state or the program after that emission.
C8_PressOnTwice ==
    plan.name = "PressTwice" =>
        /\ hist.switched_on_from_off <= 1
        /\ program = 1
        /\ state = (IF hist.switched_on_from_off = 1 THEN "on" ELSE "off")
        /\ (plan.left = <<>> /\ Settled) => hist.switched_on_from_off = 1

\* Both presses have run to their end.
C8_Witness ==
    /\ plan.name = "PressTwice" /\ plan.left = <<>> /\ Settled
    /\ state = "on" /\ hist.switched_on_from_off = 1

\* Runs that were interrupted without force strictly inside their duration
\* and are waiting for the rest of it: el is the instant of the interrupt,
\* tgt the instant at which the run ends.
Finishing ==
    {p \in Slots : /\ procs[p].k = "program_run" /\ procs[p].pc = "rn3"
                   /\ 0 < procs[p].el /\ procs[p].el < RunDuration}

C22_MissingContainerIsAnIssue ==
    [][\A p \in Slots :
          (/\ plan.missing
           /\ procs[p].k = "program_run" /\ procs[p].pc = "rn0"
           /\ procs'[p] # procs[p])
          => /\ fault' = ""
             /\ \E q \in Slots : /\ procs'[q].k = "production"
                                 /\ procs'[q].cres = "issue"]_mvars

\* C23: a machine in error is one clear_issue can act on: the simulation
\* is running and the error transition holds ui and executor until
\* clear_issue has emitted clearing_issue and issue_cleared, after which
\* the state is on and error_code is 0.
C23_ClearIssueFromError ==
    state = "error" =>
        /\ Running
        /\ \E p \in Slots : /\ procs[p].k = "switch_error"
                            /\ ui.user = p /\ ex.user = p

\* C26: an automated program switch that holds ui and executor and is not
\* preempted goes through switch-on, switch-program and
\* switch-production, also when the machine is producing: while it waits
\* for switched_on a switch-on routine is under way, and it ends with its
\* program selected and the machine in production.
C26_AutoSwitchGoesThrough ==
    /\ [](\A p \in Slots :
            (/\ Running /\ state = "production"
             /\ procs[p].k = "auto" /\ procs[p].pc = "ap4"
             /\ procs[p].ik = "none" /\ ~Woken(p))
            => Live("switch_on") # {})
    /\ [][\A p \in Slots :
            (/\ procs[p].k = "auto" /\ procs[p].pc = "ap6"
             /\ procs[p].ik = "none" /\ procs'[p].k = "none")
            => /\ program' = procs[p].prog
               /\ state' = "production"]_mvars

\* C33: _switch_off and _switch_on started by reboot with
\* require_executor = False carry out their transition whoever holds the
\* executor: from on the switch-off goes on to its wnorm(30, 50) and from
\* off the switch-on to its wnorm(30, 60), so that reboot goes from off
\* to on.
C33_RebootGoesThrough ==
    [][\A q \in Slots :
          (/\ procs[q].prio = -1 /\ procs[q].ik = "none"
           /\ procs'[q] # procs[q])
          => /\ (procs[q].k = "switch_off" /\ procs[q].pc = "sf1"
                 /\ state = "on") => procs'[q].pc = "sf3"
             /\ (procs[q].k = "switch_on" /\ procs[q].pc = "so1"
                 /\ state = "off") => procs'[q].pc = "so3"]_mvars

\* C35: issue_occurred is not emitted while an earlier issue of the
\* machine is not cleared: when a _switch_error routine passes its state
\* check and emits issue_occurred, no other _switch_error routine has
\* emitted it and is still on its way to the error state.
C35_OneIssueAtATime ==
    [][\A p \in Slots :
          (/\ procs[p].k = "switch_error" /\ procs[p].pc = "se1"
           /\ procs'[p] # procs[p] /\ procs[p].ik = "none"
           /\ state \in {"on", "production"})
          => \A q \in Slots \ {p} :
                ~(/\ procs[q].k = "switch_error"
                  /\ procs[q].pc \in {"se2", "se3", "se4"})]_mvars

\* C37: the program of the machine does not change while its state is
\* production, and the assertion _switch_program makes once it has the
\* executor (state is not production) never fails.
C37_NoSwitchInProduction ==
    /\ [](fault # "AssertionError")
    /\ [][program' # program => state # "production"]_mvars

\* C34: as long as the machine state is production its production routine
\* is alive; once stop_production, a switch-off or an error transition
\* has ended the routine and no transition routine is left to move the
\* state, the state is not production.
C34_ProductionHasRoutine ==
    (/\ Running /\ state = "production"
     /\ Live("switch_on") \cup Live("switch_off")
           \cup Live("switch_error") = {})
    => Live("production") # {}

\* ================================================================
\* Containers (containers.py, material.py).  Quantities are whole units
\* and every slice of a timed put adds one unit.
\* ================================================================
RECURSIVE SumSeq(_)
SumSeq(q) == IF q = <<>> THEN 0 ELSE q[1] + SumSeq(Tail(q))

\* MaterialContainer.level / .free
MaterialLevel == SumSeq(batches)
MaterialFree == Capacity - MaterialLevel
\* ConsumableContainer.free
ConsumableFree == Capacity - level

ContainersRunning == cfault = ""

\* MaterialBatch.from_existing(batch, new_quantity): quantity of the copy.
\* In Python `new_quantity or batch.quantity` takes batch.quantity when
\* new_quantity is 0.
FromExisting(batchQuantity, newQuantity) ==
    IF newQuantity = 0 THEN batchQuantity ELSE newQuantity

\* The while loop of MaterialContainer.get: bs are the batches left, fq the
\* quantity fetched so far, out the fetched batches.
RECURSIVE GetLoop(_, _, _, _)
GetLoop(bs, quantity, fq, out) ==
    IF Len(bs) = 0 THEN [bs |-> bs, out |-> out, err |-> FALSE]
    ELSE LET n == Len(bs)
             missing == quantity - fq
             split == fq + bs[n] > quantity
             bs1 == IF split THEN [bs EXCEPT ![n] = bs[n] - missing]
                    ELSE SubSeq(bs, 1, n - 1)
             fq1 == IF split THEN fq + missing ELSE fq + bs[n]
             out1 == IF split
                     THEN Append(out, FromExisting(bs[n] - missing, missing))
                     ELSE Append(out, bs[n])
         IN IF fq1 = quantity THEN [bs |-> bs1, out |-> out1, err |-> FALSE]
            ELSE IF fq1 > quantity
                 THEN [bs |-> bs1, out |-> out1, err |-> TRUE]
                 ELSE GetLoop(bs1, quantity, fq1, out1)

\* MaterialContainer.put up to its first timeout.
MaterialPutStart(f, q) ==
    /\ ContainersRunning /\ fills[f].kind = "none"
    /\ LET quantity == IF q > MaterialFree THEN MaterialFree ELSE q
       IN IF quantity > 0
          THEN /\ batches' = <<0>> \o batches
               /\ fills' = [fills EXCEPT ![f] =
                      [kind |-> "material", q |-> quantity, left |-> quantity]]
          ELSE UNCHANGED <<batches, fills>>
    /\ UNCHANGED <<level, waiting, got, cfault>>

\* One timeout of MaterialContainer.put and the statements after it, the
\* closing assertion included when it was the last one.
MaterialPutSlice(f) ==
    /\ ContainersRunning /\ fills[f].kind = "material"
    /\ IF batches = <<>>
       THEN /\ cfault' = "IndexError"
            /\ UNCHANGED <<batches, fills>>
       ELSE LET b1 == [batches EXCEPT ![1] = @ + 1]
                last == fills[f].left = 1
            IN IF last /\ b1[1] # fills[f].q
               THEN /\ batches' = b1
                    /\ cfault' = "AssertionError"
                    /\ UNCHANGED fills
               ELSE /\ batches' = b1
                    /\ fills' = [fills EXCEPT ![f] =
                           IF last THEN NoFill
                           ELSE [@ EXCEPT !.left = @ - 1]]
                    /\ UNCHANGED cfault
    /\ UNCHANGED <<level, waiting, got>>

\* MaterialContainer.get(quantity)
MaterialGet(quantity) ==
    /\ ContainersRunning
    /\ IF quantity > MaterialLevel
       THEN /\ cfault' = "ValueError"
            /\ UNCHANGED <<batches, got>>
       ELSE LET r == GetLoop(batches, quantity, 0, <<>>)
            IN /\ batches' = r.bs
               /\ got' = [done |-> TRUE, q |-> quantity,
                          before |-> MaterialLevel,
                          after |-> SumSeq(r.bs), fetched |-> r.out]
               /\ cfault' = IF r.err THEN "ValueError" ELSE ""
    /\ UNCHANGED <<level, waiting, fills>>

\* simpy.Container: the put events are served first come first served, and
\* one that does not fit blocks the ones behind it.
RECURSIVE TriggerPut(_, _)
TriggerPut(lv, w) ==
    IF w # <<>> /\ Capacity - lv >= w[1]
    THEN TriggerPut(lv + w[1], Tail(w))
    ELSE [level |-> lv, waiting |-> w]

\* ConsumableContainer.put up to its first timeout.
ConsumablePutStart(f, q) ==
    /\ ContainersRunning /\ fills[f].kind = "none"
    /\ LET quantity == IF q > ConsumableFree THEN ConsumableFree ELSE q
       IN IF quantity > 0
          THEN fills' = [fills EXCEPT ![f] =
                   [kind |-> "consumable", q |-> quantity, left |-> quantity]]
          ELSE UNCHANGED fills
    /\ UNCHANGED <<batches, level, waiting, got, cfault>>

\* One timeout of ConsumableContainer.put and its container.put(add_quantity),
\* which the routine does not wait for.
ConsumablePutSlice(f) ==
    /\ ContainersRunning /\ fills[f].kind = "consumable"
    /\ LET r == TriggerPut(level, Append(waiting, 1))
       IN /\ level' = r.level
          /\ waiting' = r.waiting
    /\ fills' = [fills EXCEPT ![f] =
           IF @.left = 1 THEN NoFill ELSE [@ EXCEPT !.left = @ - 1]]
    /\ UNCHANGED <<batches, got, cfault>>

\* ConsumableContainer.get(quantity); simpy.Container.get refuses an amount
\* that is not positive.
ConsumableGet(quantity) ==
    /\ ContainersRunning
    /\ IF quantity > level \/ quantity <= 0
       THEN /\ cfault' = "ValueError"
            /\ UNCHANGED <<level, waiting>>
       ELSE LET r == TriggerPut(level - quantity, waiting)
            IN /\ level' = r.level
               /\ waiting' = r.waiting
               /\ UNCHANGED cfault
    /\ UNCHANGED <<batches, fills, got>>

\* A MaterialContainer starts with one batch of its capacity when built
\* without init and empty otherwise; the simpy.Container of a
\* ConsumableContainer starts at `init or capacity`.
InitContainer ==
    /\ MachineIdle /\ BlocksIdle /\ MaintenanceIdle /\ ProgramsIdle
    /\ StockIdle /\ MonitorIdle
    /\ batches \in {<<Capacity>>, <<>>}
    /\ level \in 1..Capacity
    /\ waiting = <<>>
    /\ fills = [f \in Fillers |-> NoFill]
    /\ got = NoGet
    /\ cfault = ""

NextContainer ==
    \/ \E f \in Fillers, q \in 0..Capacity :
           MaterialPutStart(f, q) /\ UNCHANGED notContainers
    \/ \E f \in Fillers : MaterialPutSlice(f) /\ UNCHANGED notContainers
    \/ \E q \in 0..Capacity : MaterialGet(q) /\ UNCHANGED notContainers
    \/ \E f \in Fillers, q \in 0..Capacity :
           ConsumablePutStart(f, q) /\ UNCHANGED notContainers
    \/ \E f \in Fillers : ConsumablePutSlice(f) /\ UNCHANGED notContainers
    \/ \E q \in 0..Capacity : ConsumableGet(q) /\ UNCHANGED notContainers

SpecContainer == InitContainer /\ [][NextContainer]_mvars

\* C4: the level of a container stays between 0 and its capacity, also
\* while timed puts and gets overlap.
C4_LevelWithinCapacity ==
    /\ 0 <= MaterialLevel /\ MaterialLevel <= Capacity
    /\ 0 <= level /\ level <= Capacity

\* C5: MaterialContainer.get(q) with 0 <= q <= level returns batches whose
\* quantities sum to q, and what is left plus what was fetched is what
\* was there before.
C5_GetConserves ==
    got.done => /\ SumSeq(got.fetched) = got.q
                /\ got.after + SumSeq(got.fetched) = got.before

\* C36: every MaterialContainer.put ends with the batch it inserted
\* holding the quantity accepted at its start: the closing assertion of
\* put never fails (nor does the batches[0] it reads go missing),
\* whatever other puts and gets act on the container during the fill.
C36_PutAssertionHolds == cfault \notin {"AssertionError", "IndexError"}

\* C10: a run interrupted with force after time_spent < d stops at once,
\* consumes inputs for time_spent only and puts exactly one product batch
\* whose quantity is the BOM quantity scaled by time_spent / d.
C10_ForcedStopScalesOutput ==
    (hist.batch.n > 0 /\ hist.batch.forced /\ hist.batch.spent < RunDuration)
        => /\ hist.batch.n = 1
           /\ hist.batch.consumed = hist.batch.spent * BomConsumption
           /\ hist.batch.quantity * RunDuration
                  = BomQuantity * hist.batch.spent

\* ================================================================
\* Blocks and their schedule (schedules.py)
\* ================================================================

\* Base.emit on an event of the block: the routine waiting on that event
\* object is resumed; the event object is replaced, so an emission nobody
\* waits for is lost.
Triggered(r, ev) ==
    IF r.pc = ev /\ ~r.woke THEN [r EXCEPT !.woke = TRUE] ELSE r

\* Schedule.emit(ev, block): the handler routine is resumed with the block
\* if it waits on the current event object.
SchedEmit(h, ev, b) == IF h[ev] = 0 THEN [h EXCEPT ![ev] = b] ELSE h

\* Block.start()
BlockStart(ia, rn, b) ==
    IF ia[b] THEN [ia |-> ia, rn |-> rn]
    ELSE [ia |-> [ia EXCEPT ![b] = TRUE],
          rn |-> [rn EXCEPT ![b] = Triggered(@, "start")]]

\* Block.stop()
BlockStop(ia, rn, b) ==
    IF ia[b] THEN [ia |-> [ia EXCEPT ![b] = FALSE],
                   rn |-> [rn EXCEPT ![b] = Triggered(@, "stop")]]
    ELSE [ia |-> ia, rn |-> rn]

Emission(e, name) == [last |-> name, flip |-> ~e.flip]

\* A timeout that ends at some instant is served before the events
\* emitted at that instant: no timer fires while a handler of the
\* schedule is about to be resumed.
Quiet == heard = NothingHeard

\* CronBlock.start_cond: the sleep until next_start ends, start() is
\* called, the next window is computed and its end_cond routine spawned.
CronStart(b) ==
    /\ Quiet
    /\ watchers[b] < MaxWatchers
    /\ LET r == BlockStart(is_active, run, b)
       IN  is_active' = r.ia /\ run' = r.rn
    /\ watchers' = [watchers EXCEPT ![b] = @ + 1]
    /\ UNCHANGED <<deleted, priority, emitted, heard, active_block,
                   active_blocks, acting>>

\* CronBlock.end_cond: the sleep until next_end ends and stop() is called.
CronEnd(b) ==
    /\ Quiet
    /\ watchers[b] > 0
    /\ LET r == BlockStop(is_active, run, b)
       IN  is_active' = r.ia /\ run' = r.rn
    /\ watchers' = [watchers EXCEPT ![b] = @ - 1]
    /\ UNCHANGED <<deleted, priority, emitted, heard, active_block,
                   active_blocks, acting>>

\* Block.delete(): interrupting a routine that has ended raises in the
\* caller before deleted is set.
Delete(b) ==
    /\ IF run[b].pc # "done"
       THEN /\ run' = [run EXCEPT ![b].intr = TRUE]
            /\ deleted' = [deleted EXCEPT ![b] = TRUE]
       ELSE UNCHANGED <<run, deleted>>
    /\ UNCHANGED <<is_active, watchers, priority, emitted, heard,
                   active_block, active_blocks, acting>>

\* Mutant: after block_started the routine waits for start again.
RunStartedKeepsWaiting(b) ==
    /\ run[b].pc = "start" /\ run[b].woke /\ ~run[b].intr
    /\ is_active' = [is_active EXCEPT ![b] = TRUE]
    /\ emitted' = [emitted EXCEPT ![b] = Emission(@, "block_started")]
    /\ heard' = SchedEmit(heard, "block_started", b)
    /\ run' = [run EXCEPT ![b] = NoRun]
    /\ UNCHANGED <<deleted, watchers, priority, active_block, active_blocks,
                   acting>>

\* Block._run resumed by its start event.
RunStarted(b) ==
    /\ run[b].pc = "start" /\ run[b].woke /\ ~run[b].intr
    /\ is_active' = [is_active EXCEPT ![b] = TRUE]
    /\ emitted' = [emitted EXCEPT ![b] = Emission(@, "block_started")]
    /\ heard' = SchedEmit(heard, "block_started", b)
    /\ run' = [run EXCEPT ![b] = [NoRun EXCEPT !.pc = "stop"]]
    /\ UNCHANGED <<deleted, watchers, priority, active_block, active_blocks,
                   acting>>

\* Block._run resumed by its stop event.
RunStopped(b) ==
    /\ run[b].pc = "stop" /\ run[b].woke /\ ~run[b].intr
    /\ is_active' = [is_active EXCEPT ![b] = FALSE]
    /\ emitted' = [emitted EXCEPT ![b] = Emission(@, "block_finished")]
    /\ heard' = SchedEmit(heard, "block_finished", b)
    /\ run' = [run EXCEPT ![b] = NoRun]
    /\ UNCHANGED <<deleted, watchers, priority, active_block, active_blocks,
                   acting>>

\* Block._run receives the interrupt of delete(); an interrupt is delivered
\* before any event the routine waits for.
RunDeleted(b) ==
    /\ run[b].pc # "done" /\ run[b].intr
    /\ is_active' = [is_active EXCEPT ![b] = FALSE]
    /\ emitted' = [emitted EXCEPT ![b] = Emission(@, "block_deleted")]
    /\ run' = [run EXCEPT ![b] = [pc |-> "done", woke |-> FALSE,
                                  intr |-> FALSE]]
    /\ UNCHANGED <<deleted, watchers, priority, heard, active_block,
                   active_blocks, acting>>

\* Schedule._on_block_start handling one block_started.
OnBlockStart ==
    /\ heard.block_started # 0
    /\ LET block == heard.block_started
           first == active_block = 0
           wins == ~first /\ priority[block] <= priority[active_block]
           r == IF wins THEN BlockStop(is_active, run, active_block)
                ELSE [ia |-> is_active, rn |-> run]
       IN  /\ active_blocks' = active_blocks \cup {block}
           /\ is_active' = r.ia
           /\ run' = r.rn
           /\ active_block' = IF first \/ wins THEN block ELSE active_block
           /\ acting' = IF first \/ wins THEN block ELSE acting
    /\ heard' = [heard EXCEPT !.block_started = 0]
    /\ UNCHANGED <<deleted, watchers, priority, emitted>>

\* Schedule._on_block_finished handling one block_finished.
OnBlockFinished ==
    /\ heard.block_finished # 0
    /\ active_blocks' = active_blocks \ {heard.block_finished}
    /\ active_block' = IF active_blocks' = {} THEN 0 ELSE active_block
    /\ heard' = [heard EXCEPT !.block_finished = 0]
    /\ UNCHANGED <<is_active, deleted, run, watchers, priority, emitted,
                   acting>>

\* Every block is a CronBlock of the schedule; its first end_cond routine
\* is spawned when start_cond begins.
InitBlock ==
    /\ MachineIdle /\ ContainersIdle /\ MaintenanceIdle /\ ProgramsIdle
    /\ StockIdle /\ MonitorIdle
    /\ is_active = [b \in Blocks |-> FALSE]
    /\ deleted = [b \in Blocks |-> FALSE]
    /\ run = [b \in Blocks |-> NoRun]
    /\ watchers = [b \in Blocks |-> 1]
    /\ priority \in {[b \in Blocks |-> 0], [b \in Blocks |-> b - 1]}
    /\ emitted = [b \in Blocks |-> NoEmission]
    /\ heard = NothingHeard
    /\ active_block = 0
    /\ active_blocks = {}
    /\ acting = 0

NextBlock ==
    \/ \E b \in Blocks : CronStart(b) /\ UNCHANGED notBlocks
    \/ \E b \in Blocks : CronEnd(b) /\ UNCHANGED notBlocks
    \/ \E b \in Blocks : Delete(b) /\ UNCHANGED notBlocks
    \/ \E b \in Blocks : RunStarted(b) /\ UNCHANGED notBlocks
    \/ \E b \in Blocks : RunStopped(b) /\ UNCHANGED notBlocks
    \/ \E b \in Blocks : RunDeleted(b) /\ UNCHANGED notBlocks
    \/ OnBlockStart /\ UNCHANGED notBlocks
    \/ OnBlockFinished /\ UNCHANGED notBlocks

SpecBlock == InitBlock /\ [][NextBlock]_mvars

\* The timers of a cron block keep firing, a resumed routine runs and a
\* handler of the schedule that was woken is resumed.
RunStep(b) == RunStarted(b) \/ RunStopped(b) \/ RunDeleted(b)

SpecBlockFair ==
    /\ SpecBlock
    /\ WF_mvars(OnBlockStart /\ UNCHANGED notBlocks)
    /\ WF_mvars(OnBlockFinished /\ UNCHANGED notBlocks)
    /\ \A b \in Blocks :
          /\ SF_mvars(CronStart(b) /\ UNCHANGED notBlocks)
          /\ SF_mvars(CronEnd(b) /\ UNCHANGED notBlocks)
          /\ WF_mvars(RunStep(b) /\ UNCHANGED notBlocks)

\* C6: the emission of a block that follows its block_started is a
\* block_finished or a block_deleted, never another block_started; a
\* block_finished only ever follows a block_started, nothing follows a
\* block_deleted; and every block_started is followed by one of the two.
C6_StartedThenClosed ==
    /\ [][\A b \in Blocks : emitted'[b] # emitted[b] =>
            /\ emitted[b].last = "block_started"
                  => emitted'[b].last \in {"block_finished", "block_deleted"}
            /\ emitted'[b].last = "block_finished"
                  => emitted[b].last = "block_started"
            /\ emitted[b].last # "block_deleted"]_mvars
    /\ \A b \in Blocks : (emitted[b].last = "block_started")
                            ~> (emitted[b].last # "block_started")

\* One block was stopped by the schedule for a block of stronger or equal
\* priority and has emitted block_finished, the other was deleted after it
\* had started.
C6_Witness ==
    \E b, c \in Blocks :
        /\ b # c
        /\ emitted[b].last = "block_finished" /\ active_block = c
        /\ emitted[c].last = "block_deleted" /\ deleted[c]

\* C11 (as stated): in the session OneRun (a container holding a little
\* more than one run consumes, press_on then start_production) the first
\* run is not refused, and once it is over the level is the initial level
\* minus what was consumed, what was consumed is within the 1 % spread of
\* duration * rate, and the product container has gained one batch.
C11_OneRunCompletes ==
    plan.name = "OneRun" =>
        /\ hist.batches = 0 => icode # "issue" /\ stock = ScenarioLevel
        /\ hist.batches = 1 =>
              /\ stock = ScenarioLevel - hist.batch.consumed
              /\ hist.batch.consumed = RunDuration * BomConsumption

\* C11 (amended): when the container holds what _check_inputs asks for,
\* twice the consumption of one run, the first run is not refused, and
\* once it is over the level is the initial level minus what was consumed,
\* what was consumed is time_spent * rate (duration * rate when randomize
\* is off), and the product container has gained one batch.
C11_OneRunWithMargin ==
    plan.name = "OneRunMargin" =>
        /\ hist.batches = 0 => icode # "issue" /\ stock = Plenty
        /\ hist.batches = 1 =>
              /\ stock = Plenty - hist.batch.consumed
              /\ hist.batch.consumed = hist.batch.spent * BomConsumption
              /\ hist.batch.n = 1
              /\ ~plan.randomize =>
                    hist.batch.consumed = RunDuration * BomConsumption

\* The first run of the session is over.
C11_Witness ==
    /\ plan.name = "OneRunMargin" /\ hist.batches = 1
    /\ stock = Plenty - RunDuration * BomConsumption

\* ---------------------------------------------------------------------
\* An operating schedule of three cron blocks and its machine.

ScheduleBlocks == 1..(NBlocks + 1)

\* OperatingSchedule._on_machine_start: the machine was switched on from
\* off and the action of the active block, if there is one, is started.
OnMachineStart ==
    /\ active_block # 0
    /\ acting' = active_block
    /\ UNCHANGED <<is_active, deleted, run, watchers, priority, emitted,
                   heard, active_block, active_blocks>>

InitSchedule ==
    /\ MachineIdle /\ ContainersIdle /\ MaintenanceIdle /\ ProgramsIdle
    /\ StockIdle /\ MonitorIdle
    /\ is_active = [b \in ScheduleBlocks |-> FALSE]
    /\ deleted = [b \in ScheduleBlocks |-> FALSE]
    /\ run = [b \in ScheduleBlocks |-> NoRun]
    /\ watchers = [b \in ScheduleBlocks |-> 1]
    /\ priority \in {[b \in ScheduleBlocks |-> 0],
                     [b \in ScheduleBlocks |-> b - 1]}
    /\ emitted = [b \in ScheduleBlocks |-> NoEmission]
    /\ heard = NothingHeard
    /\ active_block = 0
    /\ active_blocks = {}
    /\ acting = 0

NextSchedule ==
    \/ \E b \in ScheduleBlocks : CronStart(b) /\ UNCHANGED notBlocks
    \/ \E b \in ScheduleBlocks : CronEnd(b) /\ UNCHANGED notBlocks
    \/ \E b \in ScheduleBlocks : RunStarted(b) /\ UNCHANGED notBlocks
    \/ \E b \in ScheduleBlocks : RunStopped(b) /\ UNCHANGED notBlocks
    \/ OnBlockStart /\ UNCHANGED notBlocks
    \/ OnBlockFinished /\ UNCHANGED notBlocks
    \/ OnMachineStart /\ UNCHANGED notBlocks

SpecSchedule == InitSchedule /\ [][NextSchedule]_mvars

\* C12: a block b that emits block_started while another block a is the
\* active block and priority[b] <= priority[a] is handed to the handler
\* of the schedule; the handler stops a (a running block a is woken to
\* emit its block_finished), makes b the active block and starts b's
\* action; and the handling of a block_finished starts no action.
C12_StrongerBlockTakesOver ==
    /\ [][\A b \in ScheduleBlocks :
            (/\ emitted'[b] # emitted[b]
             /\ emitted'[b].last = "block_started"
             /\ active_block \notin {0, b}
             /\ priority[b] <= priority[active_block])
            => heard'.block_started = b]_mvars
    /\ [][(/\ heard.block_started # 0
           /\ heard'.block_started = 0
           /\ active_block \notin {0, heard.block_started}
           /\ priority[heard.block_started] <= priority[active_block])
          => /\ active_block' = heard.block_started
             /\ acting' = heard.block_started
             /\ ~is_active'[active_block]
             /\ run[active_block].pc = "stop" => run'[active_block].woke]_mvars
    /\ [][(heard.block_finished # 0 /\ heard'.block_finished = 0)
          => acting' = acting]_mvars

\* C13: the active block is None (0) exactly when no block is in
\* active_blocks; otherwise it is a member of active_blocks and no member
\* has a lower priority number.
C13_ActiveBlockIsStrongestMember ==
    /\ (active_block = 0) <=> (active_blocks = {})
    /\ active_block # 0 =>
          /\ active_block \in active_blocks
          /\ \A c \in active_blocks : priority[active_block] <= priority[c]

\* C32: every block_started emitted on the schedule adds the block to
\* active_blocks, also when two blocks start at the same instant: once
\* the handlers of the schedule have run, every block whose last emission
\* is block_started is in active_blocks and there is an active block.
C32_EveryStartJoins ==
    Quiet => \A b \in ScheduleBlocks :
                emitted[b].last = "block_started"
                    => b \in active_blocks /\ active_block # 0

\* ---------------------------------------------------------------------
\* The maintenance team: the backlog of issues and the repair loop.

MaxIssues == 3       \* issues in the backlog at once
MaxPeriods == 2      \* turns of the producer loop followed

IssueKinds == {"ScheduledMaintenanceIssue", "OtherCustomerIssue",
               "PartBrokenIssue"}

\* The class attribute `priority` of an issue (PartBrokenIssue: the
\* constructor's default).
IssuePriority(kind) ==
    CASE kind = "ScheduledMaintenanceIssue" -> 1
      [] kind = "OtherCustomerIssue" -> 5
      [] OTHER -> 0

\* Priorities a caller passes to add_issue.
PassedPriorities == {-99, 3}

\* PriorityItem.__lt__
Less(a, b) == a.priority < b.priority

SwapItems(h, i, j) == [h EXCEPT ![i + 1] = h[j + 1], ![j + 1] = h[i + 1]]

\* heapq._siftdown: the item at pos moves towards the root while it is
\* less than its parent (positions count from 0).
RECURSIVE SiftDown(_, _, _)
SiftDown(h, startpos, pos) ==
    IF pos > startpos
    THEN LET parentpos == (pos - 1) \div 2
         IN  IF Less(h[pos + 1], h[parentpos + 1])
             THEN SiftDown(SwapItems(h, pos, parentpos), startpos, parentpos)
             ELSE h
    ELSE h

\* heapq._siftup, first half: the item at pos sinks to a leaf, the smaller
\* child moving up each time.
RECURSIVE Sink(_, _)
Sink(h, pos) ==
    LET childpos == 2 * pos + 1
        rightpos == childpos + 1
    IN  IF childpos < Len(h)
        THEN LET c == IF rightpos < Len(h)
                         /\ ~Less(h[childpos + 1], h[rightpos + 1])
                      THEN rightpos ELSE childpos
             IN  Sink(SwapItems(h, pos, c), c)
        ELSE [h |-> h, pos |-> pos]

HeapPush(h, item) == SiftDown(Append(h, item), 0, Len(h))

HeapPop(h) ==
    LET lastelt == h[Len(h)]
        rest == SubSeq(h, 1, Len(h) - 1)
    IN  IF rest = <<>> THEN rest
        ELSE LET s == Sink([rest EXCEPT ![1] = lastelt], 0)
             IN  SiftDown(s.h, 0, s.pos)

\* Maintenance.add_issue, the priority it stores the issue under.
StoredPriority(kind, given, arg) ==
    IF ~given THEN IssuePriority(kind) ELSE 5

\* Maintenance.add_issue(issue, priority): `issue in self.issues.items`
\* compares the issue with PriorityItems and is never true; after the
\* wait the issue is put into the store, which hands it to the repair
\* loop at once if the loop waits for one.
AddIssue(kind, given, arg) ==
    LET item == [priority |-> StoredPriority(kind, given, arg),
                 kind |-> kind, given |-> given, arg |-> arg]
    IN  /\ Len(issues) < MaxIssues
        /\ IF fixing = NoIssue
           THEN fixing' = item /\ UNCHANGED issues
           ELSE issues' = HeapPush(issues, item) /\ UNCHANGED fixing
        /\ UNCHANGED periods

\* Maintenance.repair: _fix_issue has ended and the loop asks the store
\* for the next issue; it gets the head of the heap if there is one.
RepairNext ==
    /\ fixing # NoIssue
    /\ IF issues = <<>>
       THEN fixing' = NoIssue /\ UNCHANGED issues
       ELSE fixing' = issues[1] /\ issues' = HeapPop(issues)
    /\ UNCHANGED periods

\* iuni(3, 5, weights): the priority the producer draws.
ProducerPriorities == 3..5

\* Maintenance.issue_producer, one turn of the loop: after the wait it
\* calls self.add_issue(OtherCustomerIssue(), priority=priority), which
\* builds a generator that nobody runs: no statement of add_issue is
\* executed and the store is not touched.
IssueProducer(drawn) ==
    /\ periods < MaxPeriods
    /\ periods' = periods + 1
    /\ UNCHANGED <<issues, fixing>>

InitMaintenance ==
    /\ MachineIdle /\ ContainersIdle /\ BlocksIdle
    /\ MaintenanceIdle /\ ProgramsIdle
    /\ StockIdle /\ MonitorIdle

NextMaintenance ==
    \/ \E kind \in IssueKinds :
          AddIssue(kind, FALSE, 0) /\ UNCHANGED notMaintenance
    \/ \E kind \in IssueKinds, arg \in PassedPriorities :
          AddIssue(kind, TRUE, arg) /\ UNCHANGED notMaintenance
    \/ RepairNext /\ UNCHANGED notMaintenance
    \/ \E drawn \in ProducerPriorities :
          IssueProducer(drawn) /\ UNCHANGED notMaintenance

SpecMaintenance == InitMaintenance /\ [][NextMaintenance]_mvars

\* ---------------------------------------------------------------------
\* An operating schedule whose first block carries the maintenance action,
\* together with the backlog of the maintenance team.

\* The action configured for a block.
ActionOf(b) == IF b = 1 THEN "maintenance" ELSE "switch-program"

\* Block.run_action started as a process.  _action_maintenance, up to its
\* wait for `stopped`: a new ScheduledMaintenanceIssue(machine, duration)
\* is handed to maintenance.add_issue, which puts it into the store.  (The
\* switch-program action acts on the machine only.)
RunAction(b) ==
    IF ActionOf(b) = "maintenance"
    THEN AddIssue("ScheduledMaintenanceIssue", FALSE, 0)
    ELSE UNCHANGED qvars

notBacklog == <<mach, cvars, pvars, svars, dvars>>

\* Schedule._on_block_start with the action it starts (needs_to_run).
OperatingBlockStart ==
    /\ OnBlockStart
    /\ IF \/ active_block = 0
          \/ priority[heard.block_started] <= priority[active_block]
       THEN RunAction(active_block')
       ELSE UNCHANGED qvars
    /\ UNCHANGED notBacklog

\* OperatingSchedule._on_machine_start with the action it starts.
OperatingMachineStart ==
    /\ OnMachineStart
    /\ RunAction(active_block)
    /\ UNCHANGED notBacklog

NextOperating ==
    \/ \E b \in Blocks : CronStart(b) /\ UNCHANGED notBlocks
    \/ \E b \in Blocks : CronEnd(b) /\ UNCHANGED notBlocks
    \/ \E b \in Blocks : RunStarted(b) /\ UNCHANGED notBlocks
    \/ \E b \in Blocks : RunStopped(b) /\ UNCHANGED notBlocks
    \/ OperatingBlockStart
    \/ OnBlockFinished /\ UNCHANGED notBlocks
    \/ OperatingMachineStart
    \/ RepairNext /\ UNCHANGED notMaintenance

SpecOperating == InitBlock /\ [][NextOperating]_mvars

\* Issues handed to the maintenance team and not repaired yet.
Outstanding == Len(issues) + IF fixing = NoIssue THEN 0 ELSE 1

\* C38: one activation of a maintenance block enqueues exactly one
\* ScheduledMaintenanceIssue: an issue reaches the backlog only in the
\* step that handles a block_started, one issue per such step, and not
\* when the machine is switched on from off while the block is active.
C38_OneIssuePerActivation ==
    [][Outstanding' > Outstanding
          => /\ Outstanding' = Outstanding + 1
             /\ heard.block_started # 0
             /\ heard'.block_started = 0]_mvars

\* The priority the backlog is to order an issue by: the one passed to
\* add_issue if one was passed, the issue's own otherwise.
BacklogPriority(item) ==
    IF item.given THEN item.arg ELSE IssuePriority(item.kind)

\* C14: whenever the repair loop takes an issue from the backlog, no
\* issue of the backlog has a lower priority number than the one taken,
\* the priority of an issue being the one passed to add_issue if one was
\* passed and the issue's own otherwise.
C14_LowestPriorityTakenFirst ==
    [][Len(issues') < Len(issues) =>
          \A i \in 1..Len(issues) :
              BacklogPriority(fixing') <= BacklogPriority(issues[i])]_mvars

\* An OtherCustomerIssue stored under a priority between 3 and 5.
ProducedIssue(item) ==
    item.kind = "OtherCustomerIssue" /\ item.priority \in ProducerPriorities

\* C27: each period of the background producer that elapses gives the
\* maintenance team one more OtherCustomerIssue of priority 3 to 5: it
\* is added to the backlog, or handed to the repair loop if that waits
\* for an issue.
C27_ProducerEnqueues ==
    [][periods' = periods + 1 =>
          \/ /\ Len(issues') = Len(issues) + 1
             /\ \E i \in 1..Len(issues') : ProducedIssue(issues'[i])
          \/ /\ fixing = NoIssue
             /\ ProducedIssue(fixing')]_mvars

\* C15: every reading above 80 that the sensor publishes while the
\* machine is not in error starts a _switch_error routine, the first such
\* reading and every later one; and the simulation does not end with the
\* machine in error while a production routine is still alive.
C15_EveryCrossingSwitchesError ==
    /\ [][(hist'.hot # hist.hot /\ state # "error")
          => Cardinality(Live("switch_error"))'
                = Cardinality(Live("switch_error")) + 1]_mvars
    /\ []((state = "error" /\ ~Running) => Live("production") = {})

\* C16: a transition routine that is preempted on ui or executor absorbs
\* the Preempted interrupt: it ends, and the interrupt leaves no routine
\* as an exception.
C16_PreemptedAbsorbed ==
    [][\A p \in Slots :
          (procs[p].ik = "Preempted" /\ procs'[p].k = "none")
          => fault' = fault]_mvars

\* C17: a _switch_error routine that finds the machine on or producing
\* after its jitter holds ui and executor at once, whoever held them; and
\* no _switch_error routine is ever preempted.
C17_ErrorTakesBothLocks ==
    /\ [][\A p \in Slots :
            (/\ procs[p].k = "switch_error" /\ procs[p].pc = "se1"
             /\ procs'[p] # procs[p]
             /\ state \in {"on", "production"})
            => ui'.user = p /\ ex'.user = p]_mvars
    /\ [][\A p \in Slots :
            procs[p].k = "switch_error" => procs'[p].ik # "Preempted"]_mvars

\* The executor would not be granted to a request of p made now.
Refused(p) == Acquire(ex, p, procs[p].prio).user # p

\* The step in which routine p, which requires the executor, gives up:
\* after its request was not granted at once (max_wait = 0), or when the
\* max_wait of a queued _switch_off has elapsed.
Dropped(p) ==
    /\ procs[p].ik = "none"
    /\ procs'[p].k = "none"
    /\ \/ /\ procs[p].k = "switch_on" /\ procs[p].pc = "so1"
          /\ state \in {"off", "production"} /\ Refused(p)
       \/ /\ procs[p].k = "switch_off" /\ procs[p].pc = "sf2"
          /\ ex.user # p
       \/ /\ procs[p].k = "switch_production" /\ procs[p].pc = "sp1"
          /\ procs[p].reqx /\ state = "on" /\ Refused(p)
       \/ /\ procs[p].k = "interrupt_production" /\ procs[p].pc = "ip1"
          /\ procs[p].reqx /\ Refused(p)

\* C18: a transition that requires the executor and does not obtain it
\* within max_wait is dropped: state and program keep their values, no
\* routine waiting for an event is woken and no event is counted, and no
\* request of the routine stays in the executor's queue or as its user.
C18_DroppedLeavesNoTrace ==
    [][\A p \in Slots : Dropped(p) =>
          /\ state' = state /\ program' = program
          /\ hist' = hist
          /\ \A q \in Slots \ {p} :
                procs[q].ev # "" => procs'[q].ev = procs[q].ev
          /\ ex'.user # p
          /\ \A i \in 1..Len(ex'.queue) : ex'.queue[i].p # p]_mvars

\* A _switch_off that requires the executor waits in its queue behind
\* another routine.
C18_Witness ==
    \E p \in Slots :
        /\ procs[p].k = "switch_off" /\ procs[p].pc = "sf2"
        /\ procs[p].reqx
        /\ ex.user \notin {0, p}
        /\ \E i \in 1..Len(ex.queue) : ex.queue[i].p = p

\* p uses the resource or waits in its queue.
InRes(res, p) ==
    res.user = p \/ \E i \in 1..Len(res.queue) : res.queue[i].p = p

\* C19: a routine that holds or waits for the executor does not request
\* ui; a routine with a request on both holds ui (it asked for the
\* executor after ui was granted); and a routine that holds both does not
\* give up ui while it keeps its request on the executor.
C19_UiBeforeExecutor ==
    /\ [][\A p \in Slots :
            (InRes(ex, p) /\ procs'[p].k = procs[p].k /\ InRes(ui', p))
            => InRes(ui, p)]_mvars
    /\ [](\A p \in Slots : (InRes(ex, p) /\ InRes(ui, p)) => ui.user = p)
    /\ [][\A p \in Slots :
            (/\ ui.user = p /\ InRes(ex, p)
             /\ procs'[p].ik = "none" /\ ui'.user # p)
            => ~InRes(ex', p)]_mvars

\* The maintenance routine holds ui and executor of the machine.
C19_Witness ==
    \E p \in Slots :
        /\ procs[p].k = "fix_issue"
        /\ ui.user = p /\ ex.user = p

\* The maintenance routine has seen the machine switched off and has not
\* ended its repair sleep.
Maintaining(p) ==
    /\ procs[p].k = "fix_issue"
    /\ \/ procs[p].pc = "fx1" /\ Woken(p)
       \/ procs[p].pc \in {"fx2", "fx3", "fx4"}

\* C31: from the forced switch-off of a scheduled maintenance until its
\* repair sleep has ended the machine is off: no press_on, automated
\* program switch or other transition turns it on in between.
C31_OffDuringMaintenance ==
    \A p \in Slots : Maintaining(p) => state = "off"

\* ---------------------------------------------------------------------
\* Machines that share programs and input containers: Program.run on
\* each machine, as far as the container locks are concerned.  A program
\* has one BOM input; cof[m] lists the containers of machine m that hold
\* it, in the order of machine.containers.

MaxRuns == 2         \* program runs one machine ends

\* The lists of containers a machine may have for the input.
ContainerLists ==
    {s \in UNION {[1..k -> Containers] : k \in 1..NContainers} :
        \A i, j \in 1..Len(s) : i # j => s[i] # s[j]}

\* simpy.PriorityResource of capacity 1; every request has priority 0.
LockRequest(l, m) ==
    IF l.user = 0 THEN [l EXCEPT !.user = m]
    ELSE [l EXCEPT !.queue = Append(@, m)]

\* Resource.release(request): the user is removed and the head of the
\* queue becomes the user; releasing a request that is not the user
\* changes nothing.
LockRelease(l, m) ==
    IF l.user # m THEN l
    ELSE IF l.queue = <<>> THEN [l EXCEPT !.user = 0]
    ELSE [user |-> Head(l.queue), queue |-> Tail(l.queue)]

\* Program._unlock_containers, first loop: every (container, request)
\* pair of the Program object is released, whichever run made the
\* request.
RECURSIVE ReleaseAll(_, _)
ReleaseAll(lk, pairs) ==
    IF pairs = <<>> THEN lk
    ELSE ReleaseAll([lk EXCEPT ![Head(pairs).container] =
                                   LockRelease(@, Head(pairs).request)],
                    Tail(pairs))

\* Program._unlock_containers, second loop: objs_to_delete holds the input
\* once per released pair and `del self.locked_containers[obj]` runs for
\* each of them; the second deletion of the same key raises KeyError.
UnlockRaises(pairs) == Len(pairs) >= 2

\* quantity_exists_in_containers(quantity, containers): the summed level
\* of the containers covers the quantity.
QuantityExists(quantity, cs) ==
    SumSeq([i \in 1..Len(cs) |-> plevel[cs[i]]]) >= quantity

\* _check_inputs: expected_duration * consumption * safety_margin is in
\* the containers of the machine.
LevelSuffices(m) == QuantityExists(SafetyMargin, cof[m])

\* The lock loop of _check_inputs from the i-th container of machine m
\* on: request, and once the request is granted record the pair and go on
\* to the next container; st = [clock, locked, run].
RECURSIVE LockLoop(_, _, _)
LockLoop(st, m, i) ==
    IF i > Len(cof[m])
    THEN [st EXCEPT !.run.pc = "running", !.run.at = 0]
    ELSE LET c == cof[m][i]
             l == LockRequest(st.clock[c], m)
         IN  IF l.user = m
             THEN LockLoop([st EXCEPT
                              !.clock[c] = l,
                              !.locked = Append(@, [container |-> c,
                                                    request |-> m])],
                           m, i + 1)
             ELSE [st EXCEPT !.clock[c] = l,
                             !.run.pc = "locking", !.run.at = i]

\* Program._check_inputs: the level suffices; the locks of the machine's
\* containers are requested one after the other.
ProgramRunStart(m) ==
    /\ pfault = ""
    /\ prun[m].pc = "idle" /\ prun[m].n < MaxRuns
    /\ LevelSuffices(m)
    /\ LET st == LockLoop([clock |-> clock,
                           locked |-> locked_containers[pof[m]],
                           run |-> prun[m]], m, 1)
       IN  /\ clock' = st.clock
           /\ locked_containers' =
                 [locked_containers EXCEPT ![pof[m]] = st.locked]
           /\ prun' = [prun EXCEPT ![m] = st.run]
    /\ UNCHANGED <<cof, pof, plevel, pfault>>

\* Program._check_inputs: the level does not suffice; program_issue,
\* _unlock_containers, and the run ends with LowContainerLevelIssue (with
\* KeyError if the unlocking raised).
ProgramRunRefused(m) ==
    /\ pfault = ""
    /\ prun[m].pc = "idle" /\ prun[m].n < MaxRuns
    /\ ~LevelSuffices(m)
    /\ LET pairs == locked_containers[pof[m]]
       IN  /\ clock' = ReleaseAll(clock, pairs)
           /\ locked_containers' = [locked_containers EXCEPT ![pof[m]] = <<>>]
           /\ IF UnlockRaises(pairs)
              THEN /\ pfault' = "KeyError"
                   /\ prun' = [prun EXCEPT ![m].pc = "failed"]
              ELSE /\ pfault' = pfault
                   /\ prun' = [prun EXCEPT ![m].n = @ + 1]
    /\ UNCHANGED <<cof, pof, plevel>>

\* The pending lock request was granted: the pair is recorded and the
\* lock loop goes on.
ProgramLockGranted(m) ==
    /\ pfault = ""
    /\ prun[m].pc = "locking"
    /\ clock[cof[m][prun[m].at]].user = m
    /\ LET c == cof[m][prun[m].at]
           st == LockLoop([clock |-> clock,
                           locked |-> Append(locked_containers[pof[m]],
                                             [container |-> c,
                                              request |-> m]),
                           run |-> prun[m]], m, prun[m].at + 1)
       IN  /\ clock' = st.clock
           /\ locked_containers' =
                 [locked_containers EXCEPT ![pof[m]] = st.locked]
           /\ prun' = [prun EXCEPT ![m] = st.run]
    /\ UNCHANGED <<cof, pof, plevel, pfault>>

\* The run is interrupted while it waits for a lock: _check_inputs is
\* outside the try block of Program.run, nothing catches the interrupt.
ProgramInterruptedLocking(m) ==
    /\ pfault = ""
    /\ prun[m].pc = "locking"
    /\ pfault' = "Interrupt"
    /\ prun' = [prun EXCEPT ![m].pc = "failed"]
    /\ UNCHANGED <<cof, pof, plevel, clock, locked_containers>>

\* The wait of the run is over after its duration: _consume_inputs takes
\* what the run consumed (one unit) from the recorded containers in their
\* order, that is from the first that is not empty (ValueError if nothing
\* is recorded or get_from_containers does not find the quantity), and
\* _unlock_containers releases them all; then program_stopped.
ProgramRunFinish(m) ==
    /\ pfault = ""
    /\ prun[m].pc = "running"
    /\ LET pairs == locked_containers[pof[m]]
           cs == [i \in 1..Len(pairs) |-> pairs[i].container]
           full == {i \in 1..Len(pairs) : plevel[cs[i]] > 0}
           first == CHOOSE i \in full : \A j \in full : i <= j
       IN  IF pairs = <<>> \/ ~QuantityExists(1, cs)
           THEN /\ pfault' = "ValueError"
                /\ prun' = [prun EXCEPT ![m].pc = "failed"]
                /\ UNCHANGED <<clock, locked_containers, plevel>>
           ELSE /\ plevel' = [plevel EXCEPT ![cs[first]] = @ - 1]
                /\ clock' = ReleaseAll(clock, pairs)
                /\ locked_containers' =
                      [locked_containers EXCEPT ![pof[m]] = <<>>]
                /\ IF UnlockRaises(pairs)
                   THEN /\ pfault' = "KeyError"
                        /\ prun' = [prun EXCEPT ![m] =
                              [@ EXCEPT !.pc = "failed", !.n = @ + 1,
                                        !.from = pairs[first].container]]
                   ELSE /\ pfault' = pfault
                        /\ prun' = [prun EXCEPT ![m] =
                              [@ EXCEPT !.pc = "idle", !.n = @ + 1,
                                        !.from = pairs[first].container,
                                        !.stopped = @ + 1]]
    /\ UNCHANGED <<cof, pof>>

\* The machines of the factory, the containers and the Program object each
\* of them uses, and the level of each container (empty, or enough to
\* pass one input check; no procurement refills them).
InitProgram ==
    /\ MachineIdle /\ ContainersIdle /\ BlocksIdle /\ MaintenanceIdle
    /\ StockIdle /\ MonitorIdle
    /\ cof \in [Machines -> ContainerLists]
    /\ pof \in [Machines -> Programs]
    /\ plevel \in [Containers -> {0, InputLevel}]
    /\ prun = [m \in Machines |-> NoProgramRun]
    /\ clock = [c \in Containers |-> FreeLock]
    /\ locked_containers = [g \in Programs |-> <<>>]
    /\ pfault = ""

NextProgram ==
    \/ \E m \in Machines :
          ProgramRunStart(m) /\ UNCHANGED notPrograms
    \/ \E m \in Machines :
          ProgramRunRefused(m) /\ UNCHANGED notPrograms
    \/ \E m \in Machines :
          ProgramLockGranted(m) /\ UNCHANGED notPrograms
    \/ \E m \in Machines :
          ProgramInterruptedLocking(m)
          /\ UNCHANGED notPrograms
    \/ \E m \in Machines :
          ProgramRunFinish(m) /\ UNCHANGED notPrograms

SpecProgram == InitProgram /\ [][NextProgram]_mvars

\* C20: the run of machine m that takes quantity from a container is the
\* user of that container's lock when it does; and no two runs that have
\* locked their containers and not yet unlocked them use the same
\* container.
C20_ConsumeUnderLock ==
    /\ [][\A m \in Machines :
            prun'[m].n > prun[m].n /\ prun[m].pc = "running"
            => clock[prun'[m].from].user = m]_mvars
    /\ [](\A m1, m2 \in Machines :
            (m1 # m2 /\ prun[m1].pc = "running" /\ prun[m2].pc = "running")
            => \A i \in 1..Len(cof[m1]) : \A j \in 1..Len(cof[m2]) :
                  cof[m1][i] # cof[m2][j])

\* The Program object of machine m is used by no other machine.
Alone(m) == \A o \in Machines : o # m => pof[o] # pof[m]

\* Machine m has a lock request, granted or queued, on container c.
Requests(m, c) ==
    \/ clock[c].user = m
    \/ \E i \in 1..Len(clock[c].queue) : clock[c].queue[i] = m

\* C21: when the program run of a machine that does not share its Program
\* object ends (its wait is over, after its duration or after an
\* interrupt, or an exception ended it), the machine has no lock request
\* left on any container and locked_containers of the program is empty;
\* and a run that had passed its input check has emitted program_stopped.
\* (With one BOM input a run whose input check fails has requested no
\* lock.)
C21_EndedRunHoldsNothing ==
    [][\A m \in Machines :
         (Alone(m) /\ prun[m].pc \in {"locking", "running"}
                   /\ prun'[m].pc \in {"idle", "failed"})
         => /\ \A c \in Containers : ~Requests(m, c)'
            /\ locked_containers'[pof[m]] = <<>>
            /\ prun[m].pc = "running"
               => prun'[m].stopped = prun[m].stopped + 1]_mvars

\* C40: once a run has passed its input check and holds its container
\* locks, its consumption at the end of the run does not fail for lack of
\* quantity: when the wait of the run of a machine (one that shares its
\* Program object with no other) is over, the containers of the machine
\* hold what the run consumed, whichever runs of other machines passed
\* their check on the same containers before.
C40_CheckedQuantityIsThere ==
    [][\A m \in Machines :
          (Alone(m) /\ prun[m].pc = "running" /\ prun'[m] # prun[m])
          => /\ QuantityExists(1, cof[m])
             /\ pfault' # "ValueError"]_mvars

\* The run of machine m waits for the lock of a container that the run of
\* machine o holds.
WaitsFor(m, o) ==
    /\ prun[m].pc = "locking"
    /\ clock[cof[m][prun[m].at]].user = o

\* C39: program runs on machines whose inputs are in overlapping sets of
\* shared containers never deadlock on the container locks: there is no
\* group of runs that have passed their input check and each wait for a
\* lock held by another waiting run of the group (such runs would never
\* hold all of their locks).
C39_NoLockDeadlock ==
    pfault = "" =>
        ~\E S \in SUBSET Machines :
            /\ S # {}
            /\ \A m \in S : \E o \in S : o # m /\ WaitsFor(m, o)

\* ================================================================
\* The stock of one material and one consumable: the containers that
\* hold them, get_from_containers and procurement (containers.py,
\* actions.py).  Puts are taken as a whole here; their timing is the
\* subject of SpecContainer.
\* ================================================================

NStock == 2          \* containers of the material
NTanks == 3          \* containers of the consumable
MaxProcured == 3     \* batches procurement creates in a session
MaxBatchSize == 2    \* largest batch_size / quantity procured, in units

\* Quantities count grains; a unit has 2^(NStock + 1) grains, so that the
\* effective quantity of what get_from_containers takes stays whole when
\* half units are asked for.
Unit == 2 ^ (NStock + 1)
Half == Unit \div 2
Stores == 1..NStock
Tanks == 1..NTanks
Factors == {1, 2}                  \* consumption_factor of a batch
Qualities == {"good", "poor"}      \* quality of a batch

RECURSIVE QuantityOf(_)
\* sum(b.quantity for b in batches)
QuantityOf(bs) ==
    IF bs = <<>> THEN 0 ELSE Head(bs).quantity + QuantityOf(Tail(bs))

\* MaterialBatch.effective_quantity, summed.
RECURSIVE EffectiveOf(_)
EffectiveOf(bs) ==
    IF bs = <<>> THEN 0
    ELSE (Head(bs).quantity \div Head(bs).consumption_factor)
         + EffectiveOf(Tail(bs))

\* sum(c.level for c in containers)
RECURSIVE LevelOf(_, _)
LevelOf(ms, i) ==
    IF i > NStock THEN 0 ELSE QuantityOf(ms[i]) + LevelOf(ms, i + 1)

\* Mutant: get takes the batch put last.
NextBatchNewest(bs) == 1

\* MaterialContainer.get takes batches[-1]; put inserts at index 0.
NextBatch(bs) == Len(bs)

\* MaterialBatch.from_existing(batch, new_quantity)
FromExistingBatch(batch, newQuantity) ==
    [batch_id |-> batch.batch_id,
     quantity |-> FromExisting(batch.quantity, newQuantity),
     quality |-> batch.quality,
     consumption_factor |-> batch.consumption_factor]

\* The list without its k-th element.
Without(bs, k) == SubSeq(bs, 1, k - 1) \o SubSeq(bs, k + 1, Len(bs))

\* The while loop of MaterialContainer.get on batches with their
\* attributes: bs are the batches left, fq the quantity fetched so far,
\* out the fetched batches.
RECURSIVE GetBatches(_, _, _, _)
GetBatches(bs, quantity, fq, out) ==
    IF Len(bs) = 0 THEN [bs |-> bs, out |-> out, err |-> FALSE]
    ELSE LET k == NextBatch(bs)
             missing == quantity - fq
             split == fq + bs[k].quantity > quantity
             rest == [bs[k] EXCEPT !.quantity = @ - missing]
             bs1 == IF split THEN [bs EXCEPT ![k] = rest]
                    ELSE Without(bs, k)
             fq1 == IF split THEN fq + missing ELSE fq + bs[k].quantity
             out1 == IF split
                     THEN Append(out, FromExistingBatch(rest, missing))
                     ELSE Append(out, bs[k])
         IN IF fq1 = quantity THEN [bs |-> bs1, out |-> out1, err |-> FALSE]
            ELSE IF fq1 > quantity
                 THEN [bs |-> bs1, out |-> out1, err |-> TRUE]
                 ELSE GetBatches(bs1, quantity, fq1, out1)

Min(a, b) == IF a < b THEN a ELSE b

\* The loop of get_from_containers over the containers from the i-th on:
\* to_get = min(container.level, left); total is the sum of the effective
\* quantities fetched so far and left = quantity - total.  gets records,
\* per container visited, the batches before and after and those fetched.
RECURSIVE FetchFrom(_, _, _, _, _, _)
FetchFrom(ms, i, quantity, total, out, gets) ==
    IF i > NStock
    THEN [mats |-> ms, batches |-> out, total |-> total, gets |-> gets,
          err |-> FALSE]
    ELSE LET toGet == Min(QuantityOf(ms[i]), quantity - total)
             r == GetBatches(ms[i], toGet, 0, <<>>)
             ms1 == [ms EXCEPT ![i] = r.bs]
             total1 == total + EffectiveOf(r.out)
             out1 == out \o r.out
             gets1 == Append(gets, [q |-> toGet, before |-> ms[i],
                                    after |-> r.bs, fetched |-> r.out])
         IN  IF r.err
             THEN [mats |-> ms1, batches |-> out1, total |-> total1,
                   gets |-> gets1, err |-> TRUE]
             ELSE IF quantity - total1 = 0
             THEN [mats |-> ms1, batches |-> out1, total |-> total1,
                   gets |-> gets1, err |-> FALSE]
             ELSE FetchFrom(ms1, i + 1, quantity, total1, out1, gets1)

NoOp == [op |-> "none"]

\* get_from_containers(quantity, containers) on the material containers.
GetFromContainers(quantity) ==
    /\ sfault = ""
    /\ IF LevelOf(mats, 1) < quantity
       THEN /\ sfault' = "ValueError"
            /\ UNCHANGED <<mats, done>>
       ELSE LET r == FetchFrom(mats, 1, quantity, 0, <<>>, <<>>)
            IN  /\ mats' = r.mats
                /\ done' = [op |-> "get", q |-> quantity,
                            removed |-> LevelOf(mats, 1) - LevelOf(r.mats, 1),
                            batches |-> r.batches, total |-> r.total,
                            gets |-> r.gets]
                /\ sfault' = IF r.err THEN "ValueError" ELSE ""
    /\ UNCHANGED <<cons, made>>

\* MaterialContainer.put(batch), taken as a whole: the quantity is cut to
\* the free capacity and the batch is inserted at index 0 (not at all when
\* nothing fits).
PutBatch(bs, batch) ==
    LET free == Capacity * Unit - QuantityOf(bs)
        quantity == Min(batch.quantity, free)
    IN  IF quantity > 0 THEN <<[batch EXCEPT !.quantity = quantity]>> \o bs
        ELSE bs

\* put_into_material_containers, strategy first, for one batch from the
\* i-th container on: full containers are skipped; container.put returns
\* the batch object it was given, so `put_batch.quantity ==
\* batch.quantity` holds and the loop over the containers ends after the
\* first put.
RECURSIVE PutIntoMaterialContainers(_, _, _)
PutIntoMaterialContainers(ms, i, batch) ==
    IF i > NStock THEN ms
    ELSE IF Capacity * Unit - QuantityOf(ms[i]) = 0
    THEN PutIntoMaterialContainers(ms, i + 1, batch)
    ELSE [ms EXCEPT ![i] = PutBatch(@, batch)]

\* _action_procurement, material: range(quantity // batch_size + 1)
\* batches are created.
NBatches(quantity, batchSize) == (quantity \div batchSize) + 1

\* The batches of one procurement, each of quantity batch_size, put one
\* after the other, the k-th first.
RECURSIVE PutProcured(_, _, _, _)
PutProcured(ms, k, n, batch) ==
    IF k > n THEN ms
    ELSE PutProcured(
             PutIntoMaterialContainers(
                 ms, 1, [batch EXCEPT !.batch_id = @ + k]),
             k + 1, n, batch)

\* _action_procurement for the material with quantity and batch_size in
\* units; quality and consumption_factor are drawn once here.
ProcureMaterial(quantity, batchSize, factor, quality) ==
    /\ sfault = ""
    /\ LET n == NBatches(quantity, batchSize)
       IN  /\ made + n <= MaxProcured
           /\ mats' = PutProcured(mats, 1, n,
                          [batch_id |-> NStock + made,
                           quantity |-> batchSize * Unit,
                           quality |-> quality,
                           consumption_factor |-> factor])
           /\ made' = made + n
           /\ done' = [op |-> "procure_material", q |-> quantity,
                       b |-> batchSize, n |-> n]
    /\ UNCHANGED <<cons, sfault>>

\* put_into_consumable_containers, strategy first, from the i-th
\* container on: ConsumableContainer.put(quantity) cuts the quantity to
\* the free capacity and returns what it put; every container is offered
\* the whole quantity.
RECURSIVE PutIntoConsumableContainers(_, _, _, _)
PutIntoConsumableContainers(cs, i, quantity, total) ==
    IF i > NTanks THEN [cons |-> cs, total |-> total]
    ELSE IF Capacity - cs[i] = 0
    THEN PutIntoConsumableContainers(cs, i + 1, quantity, total)
    ELSE LET put == Min(quantity, Capacity - cs[i])
             cs1 == [cs EXCEPT ![i] = @ + put]
         IN  IF total + put = quantity
             THEN [cons |-> cs1, total |-> total + put]
             ELSE PutIntoConsumableContainers(cs1, i + 1, quantity,
                                              total + put)

RECURSIVE SumLevels(_, _)
SumLevels(cs, i) == IF i > NTanks THEN 0 ELSE cs[i] + SumLevels(cs, i + 1)

\* _action_procurement for the consumable with quantity in units.
ProcureConsumable(quantity) ==
    /\ sfault = ""
    /\ LET r == PutIntoConsumableContainers(cons, 1, quantity, 0)
       IN  /\ cons' = r.cons
           /\ done' = [op |-> "procure_consumable", q |-> quantity,
                       before |-> SumLevels(cons, 1),
                       after |-> SumLevels(r.cons, 1),
                       total_put |-> r.total]
    /\ UNCHANGED <<mats, made, sfault>>

\* ConsumableContainer.get(quantity)
ConsumeConsumable(c, quantity) ==
    /\ sfault = ""
    /\ quantity <= cons[c]
    /\ cons' = [cons EXCEPT ![c] = @ - quantity]
    /\ done' = [op |-> "consume", q |-> quantity]
    /\ UNCHANGED <<mats, made, sfault>>

\* A MaterialContainer built without init holds one batch of its
\* capacity, and none otherwise.
InitialBatch(c) ==
    [batch_id |-> c, quantity |-> Capacity * Unit, quality |-> "good",
     consumption_factor |-> 1]

InitStock ==
    /\ MachineIdle /\ ContainersIdle /\ BlocksIdle /\ MaintenanceIdle
    /\ ProgramsIdle /\ MonitorIdle
    /\ mats \in {[c \in Stores |-> IF c \in S THEN <<InitialBatch(c)>>
                                   ELSE <<>>] : S \in SUBSET Stores}
    /\ cons = [c \in Tanks |-> Capacity]
    /\ made = 0
    /\ done = NoOp
    /\ sfault = ""

NextStock ==
    \/ \E k \in 1..(2 * Capacity) :
          GetFromContainers(k * Half) /\ UNCHANGED notStock
    \/ \E q, b \in 1..MaxBatchSize, f \in Factors, ql \in Qualities :
          ProcureMaterial(q, b, f, ql) /\ UNCHANGED notStock

SpecStock == InitStock /\ [][NextStock]_mvars

\* The consumable containers alone: a ConsumableContainer starts full
\* unless init says less.
InitConsumable ==
    /\ MachineIdle /\ ContainersIdle /\ BlocksIdle /\ MaintenanceIdle
    /\ ProgramsIdle /\ MonitorIdle
    /\ mats = [c \in Stores |-> <<>>]
    /\ cons \in [Tanks -> 1..Capacity]
    /\ made = 0
    /\ done = NoOp
    /\ sfault = ""

NextConsumable ==
    \/ \E q \in 1..Capacity : ProcureConsumable(q) /\ UNCHANGED notStock
    \/ \E c \in Tanks, q \in 1..Capacity :
          ConsumeConsumable(c, q) /\ UNCHANGED notStock

SpecConsumable == InitConsumable /\ [][NextConsumable]_mvars

\* C24: MaterialContainer.get fetches the batches in the order they were
\* put (the fetched batches are the oldest of the container, oldest
\* first, and what is left are the newest), and a fetched part carries
\* the batch_id, quality and consumption_factor of the batch it was taken
\* from.
C24_FifoAndSplit ==
    done.op = "get" =>
      \A g \in 1..Len(done.gets) :
        LET r == done.gets[g]
            n == Len(r.before)
            k == Len(r.fetched)
        IN  /\ k <= n
            /\ Len(r.after) \in {n - k, n - k + 1}
            /\ \A i \in 1..k :
                  /\ r.fetched[i].batch_id = r.before[n + 1 - i].batch_id
                  /\ r.fetched[i].quality = r.before[n + 1 - i].quality
                  /\ r.fetched[i].consumption_factor
                        = r.before[n + 1 - i].consumption_factor
            /\ \A i \in 1..Len(r.after) :
                  r.after[i].batch_id = r.before[i].batch_id

\* A get fetched an old batch whole and split a newer one.
C24_Witness ==
    /\ done.op = "get"
    /\ \E g \in 1..Len(done.gets) :
         /\ Len(done.gets[g].fetched) >= 2
         /\ Len(done.gets[g].after)
              = Len(done.gets[g].before) - Len(done.gets[g].fetched) + 1

\* C25: get_from_containers(q, containers) removes exactly q from the
\* containers when their summed level is at least q, whatever the
\* consumption_factor of the batches, and returns the sum of quantity /
\* consumption_factor over the fetched batches.
C25_RemovesExactlyQ ==
    done.op = "get" => /\ done.removed = done.q
                       /\ done.total = EffectiveOf(done.batches)

Ceil(q, b) == IF q % b = 0 THEN q \div b ELSE (q \div b) + 1

\* C28: a material procurement of quantity q with batch size b creates
\* ceil(q / b) batches, also when q is a multiple of b.
C28_CeilBatches ==
    done.op = "procure_material" => done.n = Ceil(done.q, done.b)

\* C29: a consumable procurement of quantity q raises the summed level of
\* the consumable containers by q, or by what was free if that is less,
\* and never by more than q.
C29_ConsumableTotal ==
    done.op = "procure_consumable" =>
        /\ done.after - done.before <= done.q
        /\ done.after - done.before
              = Min(done.q, NTanks * Capacity - done.before)

\* ================================================================
\* Data collection (base.py): the buffer of one object, per key.
\* ================================================================

MaxMonitor == 3      \* largest env.monitor
MaxWrites == 4       \* writes to one key
Keys == {"state", "temperature"}
Values == {0, 1}

\* Python's seq[-n:] for n >= 1.
LastN(seq, n) ==
    IF Len(seq) <= n THEN seq ELSE SubSeq(seq, Len(seq) - n + 1, Len(seq))

\* Mutant: the whole window is kept before the new entry is added.
KeptWindow(n) == n

\* append_data with monitor > 1: n = self.monitor - 1 earlier entries are
\* kept.
Kept(n) == n - 1

\* Base.append_data(dtype, key, value)
AppendData(key, value) ==
    /\ Len(written[key]) < MaxWrites
    /\ written' = [written EXCEPT ![key] = Append(@, value)]
    /\ data' = IF monitor < 0 THEN [data EXCEPT ![key] = Append(@, value)]
               ELSE IF monitor = 1 THEN [data EXCEPT ![key] = <<value>>]
               ELSE IF monitor > 1
               THEN [data EXCEPT ![key] =
                        LastN(@, Kept(monitor)) \o <<value>>]
               ELSE data
    /\ UNCHANGED monitor

InitMonitor ==
    /\ MachineIdle /\ ContainersIdle /\ BlocksIdle /\ MaintenanceIdle
    /\ ProgramsIdle /\ StockIdle
    /\ monitor \in {-1, 0} \cup 1..MaxMonitor
    /\ data = [k \in Keys |-> <<>>]
    /\ written = [k \in Keys |-> <<>>]

NextMonitor ==
    \E key \in Keys, value \in Values :
        AppendData(key, value) /\ UNCHANGED notMonitor

SpecMonitor == InitMonitor /\ [][NextMonitor]_mvars

====
